---- MODULE Spec2Model ----
(***************************************************************************)
(* minirpc: the client multiplexer (pending table, send path, receive      *)
(* loop, Call with context cancellation), the server session (handshake,   *)
(* request pump, dispatch) and its registry of services, newService and    *)
(* service.call, XClient.Broadcast, dialTimeout, the registry discovery,   *)
(* the registry and XClient.dial, as state machines, one specification for *)
(* each.                                                                   *)
(*                                                                         *)
(* Granularity.  Every section of code that runs under Client.lock is one  *)
(* atomic step (the sections do not block).  Taking a mutex is one step    *)
(* with the first section that follows it, and so is reading a header with *)
(* the removeCall that follows it.  Client.sending is held across the      *)
(* steps of send and is derived from the positions of the send goroutines. *)
(* A send on a Done channel blocks while the channel is full.              *)
(***************************************************************************)
EXTENDS Integers, Sequences, FiniteSets, TLC

(***************************************************************************)
(* Bounds of the model.                                                    *)
(***************************************************************************)
\* Number of calls issued on the one client.
NumCalls == 2

Calls == 1..NumCalls

(***************************************************************************)
(* Program constants.                                                      *)
(***************************************************************************)
\* nil *Call (removeCall's result for an unknown sequence number); also the
\* zero value of Call.Seq before registerCall has assigned it.
NoCall == 0

\* Capacity of the Done channel that Call (and Go, for a nil done) makes.
DoneCap == 1

\* Client.seq after NewClient.
FirstSeq == 1

ErrClientShutdown == "client is shutdown"
ErrTimeout == "rpc client: call timeout"
ErrRecieve == "recieve error"
ErrReadingBody == "reading body"
ErrWrite == "write error"
NoErr == "nil"

\* Header.Error of a response: "" on success.
NoHeaderError == ""

VARIABLES
    \* ---- Client
    seq,          \* Client.seq
    pending,      \* Client.pending: sequence number -> call
    closed,       \* Client.closed
    shutdown,     \* Client.shutdown
    connOpen,     \* the client's stream is open (not closed by Close, by a
                  \* failed Write, or by the peer)
    \* ---- Call, per call
    callSeq,      \* Call.Seq
    callErr,      \* Call.Err
    reply,        \* what Call.Reply points to (NoCall: never written)
    doneCh,       \* number of elements in Call.Done
    delivered,    \* number of completed call.done() on this call
    ctxDone,      \* the context given to Call is cancelled
    callerPc,     \* position of the caller inside Call
    callRet,      \* what Call returned
    \* ---- goroutines
    sendPc,       \* position of the send goroutine of each call
    recvPc,       \* position of the receive loop
    recvHdr,      \* the header (and the body that follows it) being handled
    recvCall,     \* the call removeCall returned, NoCall for nil
    \* ---- the connection
    reqWire,      \* frames written by the client, in order
    respWire,     \* response frames not yet read by the client, in order
    answered      \* sequence numbers the peer has responded to

clientVars == <<seq, pending, closed, shutdown, connOpen, callSeq, callErr,
                reply, doneCh, delivered, ctxDone, callerPc, callRet,
                sendPc, recvPc, recvHdr, recvCall,
                reqWire, respWire, answered>>

VARIABLES
    \* ---- Server and one of its sessions (HandleConn on one connection)
    serviceMap,   \* Server.serviceMap: service name -> the Register call
                  \* whose service is stored under it
    regLog,       \* the Register calls made, in the order of their
                  \* LoadOrStore: the name and the error returned
    srvPc,        \* position of HandleConn / handleCodec (the request pump)
    option,       \* the handshake record readOption read
    srvIn,        \* request frames on the stream, not yet read by the pump
    srvEof,       \* the peer has closed its side of the stream
    srvConnOpen,  \* the server has not closed the connection
    srvErrReq,    \* the header of the request whose readRequest failed
    workers,      \* the handleRequest goroutines started, in dispatch order
    srvSending,   \* holder of the session's sending mutex (NoWorker: free)
    srvOut        \* what the session wrote to the stream, in order

serverVars == <<serviceMap, regLog, srvPc, option, srvIn, srvEof, srvConnOpen,
                srvErrReq, workers, srvSending, srvOut>>

VARIABLES
    \* ---- A service made by newService and direct calls of service.call
    svc,          \* the service newService returned (NoService: none yet)
    numCalls,     \* methodType.numCalls of each method of svc.method
    svcCalls      \* the calls of svc.call: position, method, values, result

serviceVars == <<svc, numCalls, svcCalls>>

VARIABLES
    \* ---- One XClient.Broadcast
    bcPc,         \* position of Broadcast: idle, running, returned, panic
    bcServers,    \* number of servers GetAll returned: the arms 1..bcServers
    bcReplyNil,   \* the reply given to Broadcast is nil
    bcErr,        \* the variable err of Broadcast (NoErr: nil)
    bcRet,        \* the error Broadcast returned
    replyDone,    \* the variable replyDone
    bcCtx,        \* the child context: live or cancelled
    mem,          \* mem[0]: the caller's reply; mem[a]: the clone of arm a
    arms          \* each arm: position and the result e of its c.call

broadcastVars == <<bcPc, bcServers, bcReplyNil, bcErr, bcRet, replyDone, bcCtx,
                   mem, arms>>

VARIABLES
    \* ---- One dialTimeout
    dialPc,       \* position of dialTimeout: idle, wait, returned
    dialOpt,      \* the option after parseOption, and the constructor f
    dialConn,     \* the stream net.DialTimeout opened: none, open, closed
    ctorPc,       \* position of the goroutine that runs f(conn, opt)
    dialCh,       \* the channel ch (capacity 1) of clientResult
    dialElapsed,  \* time since the stream was opened
    dialFired,    \* the timer of time.After(opt.ConnectTimeout) has fired
    dialRet       \* what dialTimeout returned: client and err

dialVars == <<dialPc, dialOpt, dialConn, ctorPc, dialCh, dialElapsed,
              dialFired, dialRet>>

VARIABLES
    \* ---- One MiniRegistryDiscovery (with the MultiDiscovery it embeds)
    dNow,         \* time.Now(), as a counter
    serverList,   \* MultiDiscovery.serverList
    index,        \* MultiDiscovery.index
    lastUpdate,   \* MiniRegistryDiscovery.lastUpdate (0: the zero Time)
    dPc,          \* "ok", or the panic that ended the program
    dOps,         \* number of calls made on the discovery
    got           \* the last call: its name, mode, request and results

discoveryVars == <<dNow, serverList, index, lastUpdate, dPc, dOps, got>>

VARIABLES
    \* ---- One MiniRegistry behind its HTTP handler
    rNow,         \* time.Now(), as a counter
    rTimeout,     \* MiniRegistry.timeout
    servers,      \* MiniRegistry.servers: address -> ServerItem.start
    alive,        \* the addresses the last aliveServers returned
    rOps,         \* number of requests served
    rOp           \* the last request: method, address, status, evictions

registryVars == <<rNow, rTimeout, servers, alive, rOps, rOp>>

VARIABLES
    \* ---- One XClient and the goroutines that call its dial
    clients,      \* XClient.clients: address -> client
    mu,           \* the goroutine that holds XClient.mu (NoClient: none)
    made,         \* the clients XDial has returned, by number
    dialers       \* each goroutine: position, address, what dial returned

cacheVars == <<clients, mu, made, dialers>>

VARIABLES
    \* ---- The values readRequest makes with newArgv and newReply
    values        \* per request: the types, argv, replyv, or the panic

valueVars == <<values>>

VARIABLES
    \* ---- The first bytes of a connection: handshake, then request frames
    sock,         \* what has arrived on the server's side and is not read
    hs            \* client: frames written, bytes under way; server:
                  \* position, the bytes left in the handshake decoder,
                  \* what the codec has read

handshakeVars == <<sock, hs>>

VARIABLES
    \* ---- The consistent-hash ring
    ring,         \* keys, virtualMap; adds made; the panic that ended it
    ringGot       \* the last Get: the hash looked up and what it returned

ringVars == <<ring, ringGot>>

\* The variables of the sections added after dialTimeout.
moreVars ==
    <<discoveryVars, registryVars, cacheVars, valueVars, handshakeVars, ringVars>>

\* The variables the client does not touch.
nonClientVars == <<serverVars, serviceVars, broadcastVars, dialVars, moreVars>>

\* The variables the server does not touch.
nonServerVars == <<clientVars, serviceVars, broadcastVars, dialVars, moreVars>>

\* The variables newService and service.call do not touch.
nonServiceVars == <<clientVars, serverVars, broadcastVars, dialVars, moreVars>>

\* The variables Broadcast does not touch.
nonBroadcastVars == <<clientVars, serverVars, serviceVars, dialVars, moreVars>>

\* The variables dialTimeout does not touch.
nonDialVars == <<clientVars, serverVars, serviceVars, broadcastVars, moreVars>>

\* The variables the discovery does not touch.
nonDiscoveryVars ==
    <<clientVars, serverVars, serviceVars, broadcastVars, dialVars, registryVars, cacheVars, valueVars, handshakeVars,
      ringVars>>

\* The variables the registry does not touch.
nonRegistryVars ==
    <<clientVars, serverVars, serviceVars, broadcastVars, dialVars, discoveryVars, cacheVars, valueVars, handshakeVars,
      ringVars>>

\* The variables XClient.dial does not touch.
nonCacheVars ==
    <<clientVars, serverVars, serviceVars, broadcastVars, dialVars, discoveryVars, registryVars, valueVars, handshakeVars,
      ringVars>>

\* The variables newArgv and newReply do not touch.
nonValueVars ==
    <<clientVars, serverVars, serviceVars, broadcastVars, dialVars, discoveryVars, registryVars, cacheVars, handshakeVars,
      ringVars>>

\* The variables the handshake does not touch.
nonHandshakeVars ==
    <<clientVars, serverVars, serviceVars, broadcastVars, dialVars, discoveryVars, registryVars, cacheVars, valueVars,
      ringVars>>

\* The variables the ring does not touch.
nonRingVars ==
    <<clientVars, serverVars, serviceVars, broadcastVars,
      dialVars, discoveryVars, registryVars, cacheVars, valueVars, handshakeVars>>

vars == <<clientVars, serverVars, serviceVars, broadcastVars, dialVars,
          moreVars>>

(***************************************************************************)
(* Values on the wire.                                                     *)
(***************************************************************************)
\* The argument of call c, the reply the method computes from an argument,
\* and the error text of the response to sequence number s (all injective,
\* so that a mix-up of two calls is visible).
ArgsOf(c) == c
ReplyOf(arg) == arg + 10
ErrorOf(s) == "error " \o ToString(s)

NoHdr == [seq |-> NoCall, error |-> NoHeaderError, body |-> NoCall]

Range(f) == {f[x] : x \in DOMAIN f}

(***************************************************************************)
(* Client                                                                  *)
(***************************************************************************)
\* Client.avaliable without the test of closed.
avaliable_IgnoresClosed == ~shutdown

\* Client.avaliable
avaliable == ~shutdown /\ ~closed

\* A send that releases Client.sending before its registerCall.
sendingHeld_Never == FALSE

\* Client.sending is held: by a send between its registerCall and its
\* return.  (terminateCalls takes and releases it within one step.)
sendingHeld == \E c \in Calls : sendPc[c] \in {"write", "writeFail"}

\* call.done(): a send on call.Done, possible while the channel has room.
CanDone(c) == doneCh[c] < DoneCap

\* removeCall without the delete.
removeCallTable_Keeps(s) == pending

\* The pending table after delete(client.pending, s).
removeCallTable(s) == [k \in DOMAIN pending \ {s} |-> pending[k]]

\* removeCall that returns the oldest pending call, whatever s is.
removeCallResult_Oldest(s) ==
    IF DOMAIN pending = {} THEN NoCall
    ELSE pending[CHOOSE k \in DOMAIN pending : \A j \in DOMAIN pending : k <= j]

\* The call removeCall(s) returns.
removeCallResult(s) == IF s \in DOMAIN pending THEN pending[s] ELSE NoCall

\* The pending table after client.pending[s] = c.
registerCallTable(s, c) == [k \in DOMAIN pending \cup {s} |->
                               IF k = s THEN c ELSE pending[k]]

\* registerCall without client.seq++.
nextSeq_Same(s) == s

\* The value of Client.seq after registerCall assigned s.
nextSeq(s) == s + 1

ClientInit ==
    /\ seq = FirstSeq
    /\ pending = << >>
    /\ closed = FALSE
    /\ shutdown = FALSE
    /\ connOpen = TRUE
    /\ callSeq = [c \in Calls |-> NoCall]
    /\ callErr = [c \in Calls |-> NoErr]
    /\ reply = [c \in Calls |-> NoCall]
    /\ doneCh = [c \in Calls |-> 0]
    /\ delivered = [c \in Calls |-> 0]
    /\ ctxDone = [c \in Calls |-> FALSE]
    /\ callerPc = [c \in Calls |-> "init"]
    /\ callRet = [c \in Calls |-> "none"]
    /\ sendPc = [c \in Calls |-> "none"]
    /\ recvPc = "readHeader"
    /\ recvHdr = NoHdr
    /\ recvCall = NoCall
    /\ reqWire = << >>
    /\ respWire = << >>
    /\ answered = {}

(***************************************************************************)
(* Call and Go                                                             *)
(***************************************************************************)
\* Go: make the call and start its send goroutine.  Call invokes Go and
\* then waits in its select.
Go(c) ==
    /\ callerPc[c] = "init"
    /\ callerPc' = [callerPc EXCEPT ![c] = "select"]
    /\ sendPc' = [sendPc EXCEPT ![c] = "spawned"]
    /\ UNCHANGED nonClientVars
    /\ UNCHANGED <<seq, pending, closed, shutdown, connOpen, callSeq, callErr,
                   reply, doneCh, delivered, ctxDone, callRet, recvPc,
                   recvHdr, recvCall, reqWire, respWire, answered>>

\* Calls whose context is cancelled.
MaxCancels == 1

\* The context of the call is cancelled or reaches its deadline, at any
\* time.  (A cancellation before Call is invoked is seen by Call as one
\* right after its Go, which is where the model puts it.)
CtxCancel(c) ==
    /\ ~ctxDone[c]
    /\ callerPc[c] = "select"
    /\ Cardinality({x \in Calls : ctxDone[x]}) < MaxCancels
    /\ ctxDone' = [ctxDone EXCEPT ![c] = TRUE]
    /\ UNCHANGED nonClientVars
    /\ UNCHANGED <<seq, pending, closed, shutdown, connOpen, callSeq, callErr,
                   reply, doneCh, delivered, callerPc, callRet, 
                   sendPc, recvPc, recvHdr, recvCall, reqWire, respWire,
                   answered>>

\* Call, case <-ctx.Done(): removeCall(call.Seq) with the value call.Seq has
\* at that moment (NoCall while send has not registered the call), then
\* return the timeout error.
CallCancelled(c) ==
    /\ callerPc[c] = "select"
    /\ ctxDone[c]
    /\ pending' = removeCallTable(callSeq[c])
    /\ callerPc' = [callerPc EXCEPT ![c] = "returned"]
    /\ callRet' = [callRet EXCEPT ![c] = ErrTimeout]
    /\ UNCHANGED nonClientVars
    /\ UNCHANGED <<seq, closed, shutdown, connOpen, callSeq, callErr, reply,
                   doneCh, delivered, ctxDone, sendPc, recvPc,
                   recvHdr, recvCall, reqWire, respWire, answered>>

\* Call, case call := <-call.Done: return call.Err.
CallDone(c) ==
    /\ callerPc[c] = "select"
    /\ doneCh[c] > 0
    /\ doneCh' = [doneCh EXCEPT ![c] = @ - 1]
    /\ callerPc' = [callerPc EXCEPT ![c] = "returned"]
    /\ callRet' = [callRet EXCEPT ![c] = callErr[c]]
    /\ UNCHANGED nonClientVars
    /\ UNCHANGED <<seq, pending, closed, shutdown, connOpen, callSeq, callErr,
                   reply, delivered, ctxDone, sendPc, recvPc,
                   recvHdr, recvCall, reqWire, respWire, answered>>

(***************************************************************************)
(* send                                                                    *)
(***************************************************************************)
\* send: sending.Lock(); registerCall fails: call.Err = ErrClientShutdown,
\* call.done(), return.
SendRegisterShutdown(c) ==
    /\ sendPc[c] = "spawned"
    /\ ~sendingHeld
    /\ ~avaliable
    /\ CanDone(c)
    /\ callErr' = [callErr EXCEPT ![c] = ErrClientShutdown]
    /\ doneCh' = [doneCh EXCEPT ![c] = @ + 1]
    /\ delivered' = [delivered EXCEPT ![c] = @ + 1]
    /\ sendPc' = [sendPc EXCEPT ![c] = "done"]
    /\ UNCHANGED nonClientVars
    /\ UNCHANGED <<seq, pending, closed, shutdown, connOpen, callSeq, reply,
                   ctxDone, callerPc, callRet, recvPc, recvHdr,
                   recvCall, reqWire, respWire, answered>>

\* send: sending.Lock(); registerCall succeeds: the call gets client.seq
\* and enters the table.
SendRegister(c) ==
    /\ sendPc[c] = "spawned"
    /\ ~sendingHeld
    /\ avaliable
    /\ callSeq' = [callSeq EXCEPT ![c] = seq]
    /\ pending' = registerCallTable(seq, c)
    /\ seq' = nextSeq(seq)
    /\ sendPc' = [sendPc EXCEPT ![c] = "write"]
    /\ UNCHANGED nonClientVars
    /\ UNCHANGED <<closed, shutdown, connOpen, callErr, reply, doneCh,
                   delivered, ctxDone, callerPc, callRet, recvPc,
                   recvHdr, recvCall, reqWire, respWire, answered>>

\* cc.Write(&header, call.Args) returns nil and the frame is on the stream.
SendWriteOk(c) ==
    /\ sendPc[c] = "write"
    /\ connOpen
    /\ reqWire' = Append(reqWire, [seq |-> callSeq[c], arg |-> ArgsOf(c)])
    /\ sendPc' = [sendPc EXCEPT ![c] = "done"]
    /\ UNCHANGED nonClientVars
    /\ UNCHANGED <<seq, pending, closed, shutdown, connOpen, callSeq, callErr,
                   reply, doneCh, delivered, ctxDone, callerPc, callRet,
                   recvPc, recvHdr, recvCall, respWire, answered>>

\* cc.Write returns nil although the stream is closed: the frame fits the
\* write buffer and the error of the deferred Flush is dropped.
SendWriteLost(c) ==
    /\ sendPc[c] = "write"
    /\ ~connOpen
    /\ sendPc' = [sendPc EXCEPT ![c] = "done"]
    /\ UNCHANGED nonClientVars
    /\ UNCHANGED <<seq, pending, closed, shutdown, connOpen, callSeq, callErr,
                   reply, doneCh, delivered, ctxDone, callerPc, callRet,
                   recvPc, recvHdr, recvCall, reqWire, respWire,
                   answered>>

\* cc.Write returns an error (the header or the body does not encode, or
\* the stream refuses the bytes); the codec has closed the stream.
SendWriteError(c) ==
    /\ sendPc[c] = "write"
    /\ connOpen' = FALSE
    /\ sendPc' = [sendPc EXCEPT ![c] = "writeFail"]
    /\ UNCHANGED nonClientVars
    /\ UNCHANGED <<seq, pending, closed, shutdown, callSeq, callErr, reply,
                   doneCh, delivered, ctxDone, callerPc, callRet, 
                   recvPc, recvHdr, recvCall, reqWire, respWire, answered>>

\* After a failed Write: call := removeCall(seq); if call != nil, deliver
\* the error.
SendWriteFail(c) ==
    /\ sendPc[c] = "writeFail"
    /\ LET found == removeCallResult(callSeq[c]) IN
        /\ found # NoCall => CanDone(found)
        /\ pending' = removeCallTable(callSeq[c])
        /\ callErr' = IF found # NoCall
                        THEN [callErr EXCEPT ![found] = ErrWrite] ELSE callErr
        /\ doneCh' = IF found # NoCall
                        THEN [doneCh EXCEPT ![found] = @ + 1] ELSE doneCh
        /\ delivered' = IF found # NoCall
                        THEN [delivered EXCEPT ![found] = @ + 1] ELSE delivered
    /\ sendPc' = [sendPc EXCEPT ![c] = "done"]
    /\ UNCHANGED nonClientVars
    /\ UNCHANGED <<seq, closed, shutdown, connOpen, callSeq, reply, ctxDone,
                   callerPc, callRet, recvPc, recvHdr, recvCall,
                   reqWire, respWire, answered>>

(***************************************************************************)
(* recieve                                                                 *)
(***************************************************************************)
\* cc.ReadHeader(&header) returns the next header of the stream, and
\* call := client.removeCall(header.Seq).
RecvReadHeader ==
    /\ recvPc = "readHeader"
    /\ respWire # << >>
    /\ recvHdr' = Head(respWire)
    /\ respWire' = Tail(respWire)
    /\ recvCall' = removeCallResult(Head(respWire).seq)
    /\ pending' = removeCallTable(Head(respWire).seq)
    /\ recvPc' = "readBody"
    /\ UNCHANGED nonClientVars
    /\ UNCHANGED <<seq, closed, shutdown, connOpen, callSeq, callErr, reply,
                   doneCh, delivered, ctxDone, callerPc, callRet, 
                   sendPc, reqWire, answered>>

\* The position of recieve after cc.ReadHeader failed: the code returns.
afterHeaderError == "exited"

\* cc.ReadHeader fails: the stream is closed or at its end.
RecvReadHeaderError ==
    /\ recvPc = "readHeader"
    /\ ~connOpen
    /\ recvPc' = afterHeaderError
    /\ UNCHANGED nonClientVars
    /\ UNCHANGED <<seq, pending, closed, shutdown, connOpen, callSeq, callErr,
                   reply, doneCh, delivered, ctxDone, callerPc, callRet,
                   sendPc, recvHdr, recvCall, reqWire, respWire,
                   answered>>

\* The loop condition after an iteration whose ReadBody returned ok or not.
afterBody(ok) == IF ok THEN "readHeader" ELSE "terminate"

\* call == nil: err = cc.ReadBody(nil); continue.
RecvDiscard(ok) ==
    /\ recvPc = "readBody"
    /\ recvCall = NoCall
    /\ ok \/ ~connOpen
    /\ recvPc' = afterBody(ok)
    /\ recvHdr' = NoHdr
    /\ UNCHANGED nonClientVars
    /\ UNCHANGED <<seq, pending, closed, shutdown, connOpen, callSeq, callErr,
                   reply, doneCh, delivered, ctxDone, callerPc, callRet,
                   sendPc, recvCall, reqWire, respWire, answered>>

\* header.Error != "": call.Err = header.Error; ReadBody(nil); call.done().
RecvError(ok) ==
    /\ recvPc = "readBody"
    /\ recvCall # NoCall
    /\ recvHdr.error # NoHeaderError
    /\ ok \/ ~connOpen
    /\ CanDone(recvCall)
    /\ callErr' = [callErr EXCEPT ![recvCall] = recvHdr.error]
    /\ doneCh' = [doneCh EXCEPT ![recvCall] = @ + 1]
    /\ delivered' = [delivered EXCEPT ![recvCall] = @ + 1]
    /\ recvPc' = afterBody(ok)
    /\ recvHdr' = NoHdr
    /\ recvCall' = NoCall
    /\ UNCHANGED nonClientVars
    /\ UNCHANGED <<seq, pending, closed, shutdown, connOpen, callSeq, reply,
                   ctxDone, callerPc, callRet, sendPc, reqWire,
                   respWire, answered>>

\* Otherwise: err = cc.ReadBody(call.Reply); on an error call.Err is the
\* "reading body" error; call.done().
RecvReply(ok) ==
    /\ recvPc = "readBody"
    /\ recvCall # NoCall
    /\ recvHdr.error = NoHeaderError
    /\ ok \/ ~connOpen
    /\ CanDone(recvCall)
    /\ reply' = IF ok THEN [reply EXCEPT ![recvCall] = recvHdr.body] ELSE reply
    /\ callErr' = IF ok THEN callErr
                        ELSE [callErr EXCEPT ![recvCall] = ErrReadingBody]
    /\ doneCh' = [doneCh EXCEPT ![recvCall] = @ + 1]
    /\ delivered' = [delivered EXCEPT ![recvCall] = @ + 1]
    /\ recvPc' = afterBody(ok)
    /\ recvHdr' = NoHdr
    /\ recvCall' = NoCall
    /\ UNCHANGED nonClientVars
    /\ UNCHANGED <<seq, pending, closed, shutdown, connOpen, callSeq, ctxDone,
                   callerPc, callRet, sendPc, reqWire, respWire,
                   answered>>

\* terminateCalls, under client.sending and client.lock: shutdown = true
\* and, for every call of the pending table, call.Err = err and
\* call.done().  The calls stay in the table.
TerminateCalls ==
    /\ recvPc = "terminate"
    /\ ~sendingHeld
    /\ \A c \in Range(pending) : CanDone(c)
    /\ shutdown' = TRUE
    /\ callErr' = [c \in Calls |->
                     IF c \in Range(pending) THEN ErrRecieve ELSE callErr[c]]
    /\ doneCh' = [c \in Calls |->
                     IF c \in Range(pending) THEN doneCh[c] + 1 ELSE doneCh[c]]
    /\ delivered' = [c \in Calls |->
                     IF c \in Range(pending) THEN delivered[c] + 1
                                             ELSE delivered[c]]
    /\ recvPc' = "exited"
    /\ UNCHANGED nonClientVars
    /\ UNCHANGED <<seq, pending, closed, connOpen, callSeq, reply, ctxDone,
                   callerPc, callRet, sendPc, recvHdr, recvCall,
                   reqWire, respWire, answered>>

(***************************************************************************)
(* Close                                                                   *)
(***************************************************************************)
\* Close on a client that is neither closed nor shutdown: closed = true and
\* cc.Close().  (On a closed or shutdown client Close returns
\* ErrClientShutdown and changes nothing.)
\* A Close that never finds the client closed or shutdown.
closeFails_Never == FALSE

\* Close returns ErrClientShutdown and does nothing else:
\* client.closed || client.shutdown.
closeFails == closed \/ shutdown

Close ==
    /\ ~closeFails
    /\ closed' = TRUE
    /\ connOpen' = FALSE
    /\ UNCHANGED nonClientVars
    /\ UNCHANGED <<seq, pending, shutdown, callSeq, callErr, reply, doneCh,
                   delivered, ctxDone, callerPc, callRet, sendPc,
                   recvPc, recvHdr, recvCall, reqWire, respWire, answered>>

(***************************************************************************)
(* The peer of the client: a server session that answers each request it   *)
(* has read once, in any order, echoing the request's Seq, and that may    *)
(* close the connection.                                                   *)
(***************************************************************************)
PeerRespond(i, failed) ==
    /\ connOpen
    /\ i \in 1..Len(reqWire)
    /\ reqWire[i].seq \notin answered
    /\ answered' = answered \cup {reqWire[i].seq}
    /\ respWire' = Append(respWire,
          [seq   |-> reqWire[i].seq,
           error |-> IF failed THEN ErrorOf(reqWire[i].seq) ELSE NoHeaderError,
           body  |-> IF failed THEN NoCall ELSE ReplyOf(reqWire[i].arg)])
    /\ UNCHANGED nonClientVars
    /\ UNCHANGED <<seq, pending, closed, shutdown, connOpen, callSeq, callErr,
                   reply, doneCh, delivered, ctxDone, callerPc, callRet,
                   sendPc, recvPc, recvHdr, recvCall, reqWire>>

PeerClose ==
    /\ connOpen
    /\ connOpen' = FALSE
    /\ UNCHANGED nonClientVars
    /\ UNCHANGED <<seq, pending, closed, shutdown, callSeq, callErr, reply,
                   doneCh, delivered, ctxDone, callerPc, callRet, 
                   sendPc, recvPc, recvHdr, recvCall, reqWire, respWire,
                   answered>>

(***************************************************************************)
(* Server                                                                  *)
(***************************************************************************)
\* Number of request frames the peer writes on the connection.
MaxReqs == 2

\* MagicNumber = 0x065279
MagicNumber == 414329

GobType == "application/gob"
JsonType == "application/json"

\* The keys of codec.NewCodecFuncMap after init().
NewCodecFuncMap == {GobType}

\* The zero Option, before readOption has read anything.
NoOption == [decodes |-> FALSE, magic |-> 0, codec |-> "", handleTimeout |-> 0]

\* The handshake records a peer may send: bytes that decode into an Option
\* or not, with the magic number or another one, naming the registered
\* codec, the reserved one or none, and carrying a HandleTimeout (0: none)
\* as the test's client does.  The server's Option has no field for the
\* HandleTimeout: nothing in the server reads it.
OptionInputs == [decodes       : BOOLEAN,
                 magic         : {MagicNumber, MagicNumber + 1},
                 codec         : {GobType, JsonType, ""},
                 handleTimeout : {0, 1}]

\* A name is a string, given as the sequence of its pieces; the piece "."
\* is the character '.' and no other piece contains one.
Dot == "."

\* Go types as reflect shows them: Name(), PkgPath() and Kind().  A
\* predeclared type has no package path; a pointer type has neither a name
\* nor a package path.
IntType   == [name |-> "int",   pkgPath |-> "",        kind |-> "int"]
ArgsType  == [name |-> "Args",  pkgPath |-> "minirpc", kind |-> "struct"]
LowerArgsType == [name |-> "args", pkgPath |-> "minirpc", kind |-> "struct"]
PtrType   == [name |-> "",      pkgPath |-> "",        kind |-> "ptr"]
ErrorType == [name |-> "error", pkgPath |-> "",        kind |-> "interface"]
FooType   == [name |-> "Foo",   pkgPath |-> "minirpc", kind |-> "struct"]
BarType   == [name |-> "Bar",   pkgPath |-> "minirpc", kind |-> "struct"]

\* The identifiers of the model whose first rune is an upper-case letter.
UpperInitial == {"Foo", "Bar", "Baz", "Sum", "Timeout", "Args"}

\* ast.IsExported(name)
IsExported(name) == name \in UpperInitial

\* isExportedOrBuiltinType(t)
isExportedOrBuiltinType(t) == IsExported(t.name) \/ t.pkgPath = ""

\* The test of registerMethods without the test of the reply's kind.
qualifies_NoPtrTest(m) ==
    /\ IsExported(m.name)
    /\ Len(m.in) = 3
    /\ Len(m.out) = 1
    /\ m.out[1] = ErrorType
    /\ isExportedOrBuiltinType(m.in[2])
    /\ isExportedOrBuiltinType(m.in[3])

\* A method passes every test of the loop of registerMethods.  m.in is
\* the parameter list with the receiver first (mtype.In), m.out the
\* results.
qualifies(m) ==
    /\ IsExported(m.name)
    /\ Len(m.in) = 3
    /\ Len(m.out) = 1
    /\ m.out[1] = ErrorType
    /\ isExportedOrBuiltinType(m.in[2])
    /\ isExportedOrBuiltinType(m.in[3])
    /\ m.in[3].kind = "ptr"

\* The keys of svc.method after registerMethods, for a receiver type given
\* by its methods.
registerMethods(methods) == {<<m.name>> : m \in {x \in methods : qualifies(x)}}

\* The methods of the receiver types of the tests: Foo.Sum, Foo.sum and
\* Bar.Timeout.
FooMethods ==
    {[name |-> "Sum", in |-> <<FooType, ArgsType, PtrType>>,
      out |-> <<ErrorType>>],
     [name |-> "sum", in |-> <<FooType, ArgsType, PtrType>>,
      out |-> <<ErrorType>>]}
BarMethods ==
    {[name |-> "Timeout", in |-> <<BarType, IntType, PtrType>>,
      out |-> <<ErrorType>>]}

\* The receiver types of the program and the methods newService exposes
\* for each.
Receivers == {<<"Foo">>, <<"Bar">>}
ExposedMethods(name) ==
    IF name = <<"Foo">> THEN registerMethods(FooMethods)
    ELSE IF name = <<"Bar">> THEN registerMethods(BarMethods)
    ELSE {}

\* The ServiceMethod names a peer may put into a request header.
ServiceMethods == {<<"Foo", Dot, "Sum">>,          \* Foo.Sum
                   <<"Foo", "Sum">>,               \* FooSum
                   <<"Foo", Dot, "sum">>,          \* Foo.sum
                   <<"Baz", Dot, "Sum">>,          \* Baz.Sum
                   <<"Foo", Dot, "Sum", Dot, "x">>} \* Foo.Sum.x

\* strings.Split(s, ".")
RECURSIVE Split(_)
Split(s) ==
    IF \A i \in 1..Len(s) : s[i] # Dot
      THEN <<s>>
      ELSE LET i == CHOOSE j \in 1..Len(s) :
                       s[j] = Dot /\ \A k \in 1..(j - 1) : s[k] # Dot
           IN  <<SubSeq(s, 1, i - 1)>> \o Split(SubSeq(s, i + 1, Len(s)))

ErrIllFormed == "rpc: service/method request ill-formed"
ErrNoService == "rpc: can't find service"
ErrNoMethod == "rpc: can't find method"
ErrMethod == "method error"

\* findService that takes the first two pieces, whatever their number.
findService_FirstTwo(serviceMethod) ==
    LET strs == Split(serviceMethod) IN
    IF Len(strs) < 2 THEN ErrIllFormed
    ELSE IF strs[1] \notin DOMAIN serviceMap THEN ErrNoService
    ELSE IF strs[2] \notin ExposedMethods(strs[1]) THEN ErrNoMethod
    ELSE NoErr

\* The error findService(serviceMethod) returns, NoErr for nil.
findService(serviceMethod) ==
    LET strs == Split(serviceMethod) IN
    IF Len(strs) # 2 THEN ErrIllFormed
    ELSE IF strs[1] \notin DOMAIN serviceMap THEN ErrNoService
    ELSE IF strs[2] \notin ExposedMethods(strs[1]) THEN ErrNoMethod
    ELSE NoErr

\* readOption without the test of the magic number.
readOptionOk_NoMagic(opt) == opt.decodes

\* readOption returns an option and no error.
readOptionOk(opt) == opt.decodes /\ opt.magic = MagicNumber

\* codec.NewCodecFuncMap[option.CodecType] is present.
codecFuncOk(opt) == opt.codec \in NewCodecFuncMap

NoWorker == 0
NoReq == [seq |-> 0, sm |-> << >>, bodyOk |-> TRUE, err |-> NoErr]

\* The error of cc.ReadBody in readRequest.
ErrReadBody == "read body error"

\* Register calls made on the server.
MaxRegs == 2

\* sync.Map.LoadOrStore as Store: the value is stored also when the key is
\* present.
LoadOrStore_Store(m, k, v) ==
    [x \in DOMAIN m \cup {k} |-> IF x = k THEN v ELSE m[x]]

\* The map after sync.Map.LoadOrStore(k, v): the value is stored only when
\* the key is absent.
LoadOrStore(m, k, v) ==
    IF k \in DOMAIN m THEN m
    ELSE [x \in DOMAIN m \cup {k} |-> IF x = k THEN v ELSE m[x]]

ErrDuplicate == "rpc: service already defined"

ServerInit ==
    /\ serviceMap = << >>
    /\ regLog = << >>
    /\ srvPc = "readOption"
    /\ option = NoOption
    /\ srvIn = << >>
    /\ srvEof = FALSE
    /\ srvConnOpen = TRUE
    /\ srvErrReq = NoReq
    /\ workers = << >>
    /\ srvSending = NoWorker
    /\ srvOut = << >>

\* Register(rcvr): newService(rcvr), then LoadOrStore(svc.name, svc), one
\* atomic operation of sync.Map; dup gives the duplicate-service error.
\* Concurrent Register calls take effect in the order of their LoadOrStore.
Register(name) ==
    /\ srvPc # "panic"
    /\ Len(regLog) < MaxRegs
    /\ serviceMap' = LoadOrStore(serviceMap, name, Len(regLog) + 1)
    /\ regLog' = Append(regLog,
          [name |-> name,
           err  |-> IF name \in DOMAIN serviceMap THEN ErrDuplicate
                                                   ELSE NoErr])
    /\ UNCHANGED nonServerVars
    /\ UNCHANGED <<srvPc, option, srvIn, srvEof, srvConnOpen, srvErrReq,
                   workers, srvSending, srvOut>>

\* The peer writes its next request frame: header and body.  A body that
\* does not decode is written only after the name Foo.Sum: readRequest
\* reads the body of no request whose name it does not find.
SrvPeerWrite(sm, bodyOk) ==
    /\ ~srvEof
    /\ bodyOk \/ sm = <<"Foo", Dot, "Sum">>
    /\ srvConnOpen
    /\ Len(srvIn) + Len(workers) + (IF srvErrReq = NoReq THEN 0 ELSE 1) < MaxReqs
    /\ srvIn' = Append(srvIn,
          [seq |-> Len(srvIn) + Len(workers) + 1, sm |-> sm, bodyOk |-> bodyOk])
    /\ UNCHANGED nonServerVars
    /\ UNCHANGED <<serviceMap, regLog,
                   srvPc, option, srvEof, srvConnOpen, srvErrReq,
                   workers, srvSending, srvOut>>

\* The peer closes the connection.
SrvPeerClose ==
    /\ ~srvEof
    /\ srvEof' = TRUE
    /\ UNCHANGED nonServerVars
    /\ UNCHANGED <<serviceMap, regLog,
                   srvPc, option, srvIn, srvConnOpen, srvErrReq,
                   workers, srvSending, srvOut>>

\* HandleConn: readOption and the codec lookup succeed; handleCodec starts.
HandleConnOk(opt) ==
    /\ srvPc = "readOption"
    /\ readOptionOk(opt)
    /\ codecFuncOk(opt)
    /\ option' = opt
    /\ srvPc' = "readRequest"
    /\ UNCHANGED nonServerVars
    /\ UNCHANGED <<serviceMap, regLog,
                   srvIn, srvEof, srvConnOpen, srvErrReq, workers,
                   srvSending, srvOut>>

\* HandleConn: readOption fails (the record does not decode, or the magic
\* number is wrong) or the codec type is unknown: return, and the deferred
\* conn.Close() runs.
HandleConnReject(opt) ==
    /\ srvPc = "readOption"
    /\ ~(readOptionOk(opt) /\ codecFuncOk(opt))
    /\ option' = opt
    /\ srvPc' = "closed"
    /\ srvConnOpen' = FALSE
    /\ UNCHANGED nonServerVars
    /\ UNCHANGED <<serviceMap, regLog,
                   srvIn, srvEof, srvErrReq, workers, srvSending,
                   srvOut>>

\* handleCodec: readRequest returns a request; wg.Add(1) and
\* go handleRequest(cc, req, sending, wg).
ReadRequestOk ==
    /\ srvPc = "readRequest"
    /\ srvIn # << >>
    /\ findService(Head(srvIn).sm) = NoErr
    /\ Head(srvIn).bodyOk
    /\ workers' = Append(workers,
          [seq |-> Head(srvIn).seq, pc |-> "call", error |-> NoHeaderError,
           late |-> FALSE])
    /\ srvIn' = Tail(srvIn)
    /\ UNCHANGED nonServerVars
    /\ UNCHANGED <<serviceMap, regLog,
                   srvPc, option, srvEof, srvConnOpen, srvErrReq,
                   srvSending, srvOut>>

\* handleCodec: readRequest returns (nil, err) with an error that is not
\* an end of stream (findService failed, or the body does not decode):
\* req.header.Error = err.Error() dereferences the nil request.
ReadRequestError ==
    /\ srvPc = "readRequest"
    /\ srvIn # << >>
    /\ findService(Head(srvIn).sm) # NoErr \/ ~Head(srvIn).bodyOk
    /\ srvErrReq' = [seq    |-> Head(srvIn).seq,
                     sm     |-> Head(srvIn).sm,
                     bodyOk |-> Head(srvIn).bodyOk,
                     err    |-> IF findService(Head(srvIn).sm) # NoErr
                                  THEN findService(Head(srvIn).sm)
                                  ELSE ErrReadBody]
    /\ srvIn' = Tail(srvIn)
    /\ srvPc' = "panic"
    /\ UNCHANGED nonServerVars
    /\ UNCHANGED <<serviceMap, regLog,
                   option, srvEof, srvConnOpen, workers,
                   srvSending, srvOut>>

\* handleCodec: ReadHeader returns io.EOF: break.
ReadRequestEof ==
    /\ srvPc = "readRequest"
    /\ srvIn = << >>
    /\ srvEof
    /\ srvPc' = "wait"
    /\ UNCHANGED nonServerVars
    /\ UNCHANGED <<serviceMap, regLog,
                   option, srvIn, srvEof, srvConnOpen, srvErrReq,
                   workers, srvSending, srvOut>>

\* A wait group whose Wait returns at once.
wgZero_NoWait == TRUE

\* wg.Wait() can return: every handleRequest has run its wg.Done().
wgZero == \A w \in 1..Len(workers) : workers[w].pc = "done"

\* handleCodec: wg.Wait() returns, cc.Close(); HandleConn returns.
WaitAndClose ==
    /\ srvPc = "wait"
    /\ wgZero
    /\ srvPc' = "closed"
    /\ srvConnOpen' = FALSE
    /\ UNCHANGED nonServerVars
    /\ UNCHANGED <<serviceMap, regLog,
                   option, srvIn, srvEof, srvErrReq, workers,
                   srvSending, srvOut>>

\* The method of worker w is still running when the HandleTimeout of the
\* handshake has elapsed since handleRequest started (Bar.Timeout sleeps
\* for two seconds, the test's HandleTimeout is one second).  handleRequest
\* sets no timer: nothing else changes.
HandleTimeoutElapses(w) ==
    /\ srvPc # "panic"
    /\ w \in 1..Len(workers)
    /\ workers[w].pc = "call"
    /\ option.handleTimeout > 0
    /\ ~workers[w].late
    /\ workers' = [workers EXCEPT ![w].late = TRUE]
    /\ UNCHANGED nonServerVars
    /\ UNCHANGED <<serviceMap, regLog, srvPc, option, srvIn, srvEof,
                   srvConnOpen, srvErrReq, srvSending, srvOut>>

\* handleRequest: req.svc.call returns; an error goes to header.Error.
WorkerCall(w, failed) ==
    /\ srvPc # "panic"
    /\ w \in 1..Len(workers)
    /\ workers[w].pc = "call"
    /\ workers' = [workers EXCEPT ![w].pc = "send",
                     ![w].error = IF failed THEN ErrMethod ELSE NoHeaderError]
    /\ UNCHANGED nonServerVars
    /\ UNCHANGED <<serviceMap, regLog,
                   srvPc, option, srvIn, srvEof, srvConnOpen,
                   srvErrReq, srvSending, srvOut>>

\* A sending mutex that Lock never finds taken.
sendingFree_Always == TRUE

\* sending.Lock() can return: no sendResponse holds the session's mutex.
sendingFree == srvSending = NoWorker

\* sendResponse: sending.Lock()
WorkerLock(w) ==
    /\ srvPc # "panic"
    /\ w \in 1..Len(workers)
    /\ workers[w].pc = "send"
    /\ sendingFree
    /\ srvSending' = w
    /\ workers' = [workers EXCEPT ![w].pc = "header"]
    /\ UNCHANGED nonServerVars
    /\ UNCHANGED <<serviceMap, regLog,
                   srvPc, option, srvIn, srvEof, srvConnOpen,
                   srvErrReq, srvOut>>

\* cc.Write: the header goes to the stream.
WorkerWriteHeader(w) ==
    /\ srvPc # "panic"
    /\ w \in 1..Len(workers)
    /\ workers[w].pc = "header"
    /\ srvOut' = Append(srvOut, [kind |-> "header", seq |-> workers[w].seq,
                                 error |-> workers[w].error])
    /\ workers' = [workers EXCEPT ![w].pc = "body"]
    /\ UNCHANGED nonServerVars
    /\ UNCHANGED <<serviceMap, regLog,
                   srvPc, option, srvIn, srvEof, srvConnOpen,
                   srvErrReq, srvSending>>

\* cc.Write: the body goes to the stream; sending.Unlock(); wg.Done().
WorkerWriteBody(w) ==
    /\ srvPc # "panic"
    /\ w \in 1..Len(workers)
    /\ workers[w].pc = "body"
    /\ srvOut' = Append(srvOut, [kind |-> "body", seq |-> workers[w].seq,
                                 error |-> workers[w].error])
    /\ workers' = [workers EXCEPT ![w].pc = "done"]
    /\ srvSending' = NoWorker
    /\ UNCHANGED nonServerVars
    /\ UNCHANGED <<serviceMap, regLog,
                   srvPc, option, srvIn, srvEof, srvConnOpen,
                   srvErrReq>>

(***************************************************************************)
(* newService and service.call                                             *)
(***************************************************************************)
\* Direct calls of service.call.
MaxSvcCalls == 2

\* The parameter types a method of a receiver may have.
ParamTypes == {IntType, ArgsType, LowerArgsType, PtrType}

\* The parameter lists after the receiver: one, two or three parameters.
ParamLists ==
    {<<a>> : a \in ParamTypes}
    \cup {<<a, b>> : a \in ParamTypes, b \in ParamTypes}
    \cup {<<a, b, c>> : a \in {IntType, LowerArgsType}, b \in {PtrType},
                        c \in ParamTypes}

\* The result lists: none, an error, an int, two errors.
ResultLists == {<< >>, <<ErrorType>>, <<IntType>>, <<ErrorType, ErrorType>>}

\* The methods a receiver type Foo may declare.
MethodInputs ==
    {[name |-> n, in |-> <<FooType>> \o ps, out |-> rs] :
        n \in {"Sum", "sum"}, ps \in ParamLists, rs \in ResultLists}

\* The receiver types given to newService: Foo and Bar of the tests, and
\* Foo with Sum of the tests and one more method.
TypeInputs ==
    {[name |-> "Foo", methods |-> FooMethods],
     [name |-> "Bar", methods |-> BarMethods]}
    \cup {[name |-> "Foo", methods |-> {m}] : m \in MethodInputs}

NoService == [name |-> "", methods |-> {}, method |-> {}]
NoSvcCall == [pc |-> "idle", m |-> << >>, args |-> 0,
              rcvr |-> "", in |-> 0, reply |-> 0, ret |-> << >>,
              err |-> NoErr]

ServiceInit ==
    /\ svc = NoService
    /\ numCalls = << >>
    /\ svcCalls = [k \in 1..MaxSvcCalls |-> NoSvcCall]

\* newService(rcvr) for a receiver of type t: the name is the type's name
\* and registerMethods fills svc.method, every numCalls being zero.
NewService(t) ==
    /\ svc = NoService
    /\ IsExported(t.name)
    /\ svc' = [name |-> t.name, methods |-> t.methods,
               method |-> registerMethods(t.methods)]
    /\ numCalls' = [m \in registerMethods(t.methods) |-> 0]
    /\ UNCHANGED nonServiceVars
    /\ UNCHANGED svcCalls

\* atomic.AddUint64 that adds nothing.
AddUint64_Lost(n, d) == n

\* atomic.AddUint64(&n, d)
AddUint64(n, d) == n + d

\* The error service.call returns for the values the method returned.
callError(returnValues) ==
    IF Len(returnValues) = 1 /\ returnValues[1] # NoErr
      THEN returnValues[1]
      ELSE NoErr

\* service.call(m, args, reply), first statement: the counter of the method
\* is incremented atomically.
CallAdd(k, m, args) ==
    /\ svcCalls[k].pc = "idle"
    /\ m \in svc.method
    /\ numCalls' = [numCalls EXCEPT ![m] = AddUint64(numCalls[m], 1)]
    /\ svcCalls' = [svcCalls EXCEPT ![k].pc = "added", ![k].m = m,
                                    ![k].args = args]
    /\ UNCHANGED nonServiceVars
    /\ UNCHANGED svc

\* service.call: f.Call([s.rcvr, args, reply]) runs the method, which sets
\* the reply and returns nil or an error; call returns that error.
CallInvoke(k, failed) ==
    /\ svcCalls[k].pc = "added"
    /\ svcCalls' = [svcCalls EXCEPT
          ![k].pc = "done",
          ![k].rcvr = svc.name,
          ![k].in = svcCalls[k].args,
          ![k].reply = ReplyOf(svcCalls[k].args),
          ![k].ret = <<IF failed THEN ErrMethod ELSE NoErr>>,
          ![k].err = callError(<<IF failed THEN ErrMethod ELSE NoErr>>)]
    /\ UNCHANGED nonServiceVars
    /\ UNCHANGED <<svc, numCalls>>

(***************************************************************************)
(* XClient.Broadcast                                                       *)
(***************************************************************************)
\* Servers GetAll may return.
MaxServers == 2

\* The caller's reply in mem.
CallerReply == 0

ErrGetAll == "refresh error"
ErrDial == "dial error"

\* The reply server a computes.
ServerReply(a) == a + 10

\* An arm that passes the caller's reply to c.call.
replyTarget_Shared(a) == CallerReply

\* The place in mem of the reply arm a passes to c.call: its replyClone.
replyTarget(a) == a

\* err after an arm with result e, when every error is captured.
firstError_Last(err, e) == IF e # NoErr THEN e ELSE err

\* err after an arm with result e has passed "if err == nil && e != nil".
firstError(err, e) == IF err = NoErr /\ e # NoErr THEN e ELSE err

NoArm == [pc |-> "none", e |-> NoErr]

BroadcastInit ==
    /\ bcPc = "idle"
    /\ bcServers = 0
    /\ bcReplyNil = FALSE
    /\ bcErr = NoErr
    /\ bcRet = "none"
    /\ replyDone = FALSE
    /\ bcCtx = "live"
    /\ mem = [i \in 0..MaxServers |-> 0]
    /\ arms = [a \in 1..MaxServers |-> NoArm]

\* Broadcast: GetAll returns an error, which Broadcast returns.
BroadcastGetAllError ==
    /\ bcPc = "idle"
    /\ bcPc' = "returned"
    /\ bcRet' = ErrGetAll
    /\ UNCHANGED nonBroadcastVars
    /\ UNCHANGED <<bcServers, bcReplyNil, bcErr, replyDone, bcCtx, mem, arms>>

\* Broadcast: GetAll returns n servers; err = nil, replyDone = (reply ==
\* nil), the child context is made and one goroutine is started per server.
BroadcastStart(n, replyNil) ==
    /\ bcPc = "idle"
    /\ bcPc' = "running"
    /\ bcServers' = n
    /\ bcReplyNil' = replyNil
    /\ bcErr' = NoErr
    /\ replyDone' = replyNil
    /\ arms' = [a \in 1..MaxServers |->
                  IF a <= n THEN [pc |-> "start", e |-> NoErr] ELSE NoArm]
    /\ UNCHANGED nonBroadcastVars
    /\ UNCHANGED <<bcRet, bcCtx, mem>>

\* The context given to Broadcast is cancelled: so is its child.
ParentCancel ==
    /\ bcPc = "running"
    /\ bcCtx = "live"
    /\ bcCtx' = "cancelled"
    /\ UNCHANGED nonBroadcastVars
    /\ UNCHANGED <<bcPc, bcServers, bcReplyNil, bcErr, bcRet, replyDone, mem,
                   arms>>

\* An arm allocates its replyClone from the type of reply.
ArmClone(a) ==
    /\ bcPc = "running"
    /\ arms[a].pc = "start"
    /\ ~bcReplyNil
    /\ arms' = [arms EXCEPT ![a].pc = "dial"]
    /\ mem' = [mem EXCEPT ![a] = 0]
    /\ UNCHANGED nonBroadcastVars
    /\ UNCHANGED <<bcPc, bcServers, bcReplyNil, bcErr, bcRet, replyDone, bcCtx>>

\* With a nil reply reflect.ValueOf(reply).Elem() panics in the arm, which
\* ends the program.
ArmClonePanic(a) ==
    /\ bcPc = "running"
    /\ arms[a].pc = "start"
    /\ bcReplyNil
    /\ bcPc' = "panic"
    /\ UNCHANGED nonBroadcastVars
    /\ UNCHANGED <<bcServers, bcReplyNil, bcErr, bcRet, replyDone, bcCtx, mem,
                   arms>>

\* c.call: dial returns an error, which c.call returns.
ArmDialError(a) ==
    /\ bcPc = "running"
    /\ arms[a].pc = "dial"
    /\ arms' = [arms EXCEPT ![a].pc = "lock", ![a].e = ErrDial]
    /\ UNCHANGED nonBroadcastVars
    /\ UNCHANGED <<bcPc, bcServers, bcReplyNil, bcErr, bcRet, replyDone, bcCtx,
                   mem>>

\* c.call: dial returns a client; client.Call(ctx, ...) starts.
ArmDialOk(a) ==
    /\ bcPc = "running"
    /\ arms[a].pc = "dial"
    /\ arms' = [arms EXCEPT ![a].pc = "call"]
    /\ UNCHANGED nonBroadcastVars
    /\ UNCHANGED <<bcPc, bcServers, bcReplyNil, bcErr, bcRet, replyDone, bcCtx,
                   mem>>

\* client.Call returns nil: the server's reply is in the reply the arm
\* passed.
ArmCallOk(a) ==
    /\ bcPc = "running"
    /\ arms[a].pc = "call"
    /\ mem' = [mem EXCEPT ![replyTarget(a)] = ServerReply(a)]
    /\ arms' = [arms EXCEPT ![a].pc = "lock", ![a].e = NoErr]
    /\ UNCHANGED nonBroadcastVars
    /\ UNCHANGED <<bcPc, bcServers, bcReplyNil, bcErr, bcRet, replyDone, bcCtx>>

\* client.Call returns the error of the call.
ArmCallError(a) ==
    /\ bcPc = "running"
    /\ arms[a].pc = "call"
    /\ arms' = [arms EXCEPT ![a].pc = "lock", ![a].e = ErrorOf(a)]
    /\ UNCHANGED nonBroadcastVars
    /\ UNCHANGED <<bcPc, bcServers, bcReplyNil, bcErr, bcRet, replyDone, bcCtx,
                   mem>>

\* client.Call returns on ctx.Done().
ArmCallCtx(a) ==
    /\ bcPc = "running"
    /\ arms[a].pc = "call"
    /\ bcCtx = "cancelled"
    /\ arms' = [arms EXCEPT ![a].pc = "lock", ![a].e = ErrTimeout]
    /\ UNCHANGED nonBroadcastVars
    /\ UNCHANGED <<bcPc, bcServers, bcReplyNil, bcErr, bcRet, replyDone, bcCtx,
                   mem>>

\* The section of an arm under assignLock, then wg.Done().
ArmAssign(a) ==
    /\ bcPc = "running"
    /\ arms[a].pc = "lock"
    /\ bcErr' = firstError(bcErr, arms[a].e)
    /\ bcCtx' = IF bcErr = NoErr /\ arms[a].e # NoErr THEN "cancelled"
                                                       ELSE bcCtx
    /\ replyDone' = (replyDone \/ arms[a].e = NoErr)
    /\ mem' = IF arms[a].e = NoErr /\ ~replyDone
                THEN [mem EXCEPT ![CallerReply] = mem[a]]
                ELSE mem
    /\ arms' = [arms EXCEPT ![a].pc = "done"]
    /\ UNCHANGED nonBroadcastVars
    /\ UNCHANGED <<bcPc, bcServers, bcReplyNil, bcRet>>

\* wg.Wait() returns; Broadcast returns err and the deferred cancel() runs.
BroadcastReturn ==
    /\ bcPc = "running"
    /\ \A a \in 1..bcServers : arms[a].pc = "done"
    /\ bcPc' = "returned"
    /\ bcRet' = bcErr
    /\ bcCtx' = "cancelled"
    /\ UNCHANGED nonBroadcastVars
    /\ UNCHANGED <<bcServers, bcReplyNil, bcErr, replyDone, mem, arms>>

(***************************************************************************)
(* dialTimeout and the client constructors                                 *)
(***************************************************************************)
\* The time the model lets pass while dialTimeout waits.
MaxDialTicks == 3

\* The values of Option.ConnectTimeout: none, and one or two units of time.
ConnectTimeouts == {0, 1, 2}

ErrOneOption == "only one option is supported"
ErrNetDial == "dial tcp: connection refused"
ErrUnsupportedCodec == "unsupported codec type"
ErrEncode == "encode option error"
ErrHTTPRead == "read response error"
ErrConnectStatus == "unexpected connect status"
ErrConnectTimeout == "rpc client: connect timeout"

\* parseOption: an empty CodecType becomes the default one.
parseCodec(codec) == IF codec = "" THEN GobType ELSE codec

NoResult == [client |-> FALSE, err |-> "none"]
NoDialOpt == [connectTimeout |-> 0, codec |-> "", f |-> ""]

\* dialTimeout that races the timer whatever the ConnectTimeout.
waitsForever_Never(connectTimeout) == FALSE

\* "if opt.ConnectTimeout == 0": wait for the result without a timer.
waitsForever(connectTimeout) == connectTimeout = 0

\* The deferred function of dialTimeout without its conn.Close().
closeOnError_Never(err) == FALSE

\* The deferred function of dialTimeout closes the stream.
closeOnError(err) == err # NoErr

DialInit ==
    /\ dialPc = "idle"
    /\ dialOpt = NoDialOpt
    /\ dialConn = "none"
    /\ ctorPc = "none"
    /\ dialCh = << >>
    /\ dialElapsed = 0
    /\ dialFired = FALSE
    /\ dialRet = NoResult

\* dialTimeout returns before a stream is open: parseOption fails (more than
\* one option) or net.DialTimeout fails.
DialFail(e) ==
    /\ dialPc = "idle"
    /\ dialPc' = "returned"
    /\ dialRet' = [client |-> FALSE, err |-> e]
    /\ UNCHANGED nonDialVars
    /\ UNCHANGED <<dialOpt, dialConn, ctorPc, dialCh, dialElapsed, dialFired>>

\* dialTimeout: parseOption and net.DialTimeout succeed, the deferred close
\* is set up and the goroutine that runs f(conn, opt) is started.
DialStart(connectTimeout, codec, f) ==
    /\ dialPc = "idle"
    /\ dialPc' = "wait"
    /\ dialOpt' = [connectTimeout |-> connectTimeout,
                   codec |-> parseCodec(codec), f |-> f]
    /\ dialConn' = "open"
    /\ ctorPc' = IF f = "NewHTTPClient" THEN "connect" ELSE "new"
    /\ UNCHANGED nonDialVars
    /\ UNCHANGED <<dialCh, dialElapsed, dialFired, dialRet>>

\* NewHTTPClient: CONNECT is written and http.ReadResponse returns: the
\* expected status (NewClient follows), another status, or an error.
CtorHTTPResponse(resp) ==
    /\ ctorPc = "connect"
    /\ IF resp = "connected"
         THEN ctorPc' = "new" /\ UNCHANGED dialCh
         ELSE /\ ctorPc' = "sent"
              /\ dialCh' = Append(dialCh,
                    [client |-> FALSE,
                     err |-> IF resp = "error" THEN ErrHTTPRead
                                               ELSE ErrConnectStatus])
    /\ UNCHANGED nonDialVars
    /\ UNCHANGED <<dialPc, dialOpt, dialConn, dialElapsed, dialFired, dialRet>>

\* NewClient: the codec lookup, the encoding of the option, the client; the
\* goroutine sends the result on ch.
CtorNewClient(encodes) ==
    /\ ctorPc = "new"
    /\ ctorPc' = "sent"
    /\ dialCh' = Append(dialCh,
          IF dialOpt.codec \notin NewCodecFuncMap
            THEN [client |-> FALSE, err |-> ErrUnsupportedCodec]
          ELSE IF ~encodes \/ dialConn # "open"
            THEN [client |-> FALSE, err |-> ErrEncode]
          ELSE [client |-> TRUE, err |-> NoErr])
    /\ UNCHANGED nonDialVars
    /\ UNCHANGED <<dialPc, dialOpt, dialConn, dialElapsed, dialFired, dialRet>>

\* Time passes while dialTimeout waits and its timer, if any, is not due.
DialTick ==
    /\ dialPc = "wait"
    /\ dialElapsed < MaxDialTicks
    /\ \/ waitsForever(dialOpt.connectTimeout)
       \/ dialElapsed + 1 < dialOpt.connectTimeout
       \/ dialCh # << >>
    /\ dialElapsed' = dialElapsed + 1
    /\ UNCHANGED nonDialVars
    /\ UNCHANGED <<dialPc, dialOpt, dialConn, ctorPc, dialCh, dialFired, dialRet>>

\* "result := <-ch" or "case result := <-ch": dialTimeout returns the
\* result; the deferred function closes the stream on an error.
DialResult ==
    /\ dialPc = "wait"
    /\ dialCh # << >>
    /\ dialPc' = "returned"
    /\ dialRet' = Head(dialCh)
    /\ dialCh' = Tail(dialCh)
    /\ dialConn' = IF closeOnError(Head(dialCh).err) THEN "closed" ELSE dialConn
    /\ UNCHANGED nonDialVars
    /\ UNCHANGED <<dialOpt, ctorPc, dialElapsed, dialFired>>

\* "case <-time.After(opt.ConnectTimeout)": the timer fires with no result
\* on ch; dialTimeout returns the connect-timeout error and the deferred
\* function closes the stream.
DialTimerFires ==
    /\ dialPc = "wait"
    /\ ~waitsForever(dialOpt.connectTimeout)
    /\ dialCh = << >>
    /\ dialElapsed < MaxDialTicks
    /\ dialElapsed + 1 >= dialOpt.connectTimeout
    /\ dialElapsed' = dialElapsed + 1
    /\ dialFired' = TRUE
    /\ dialPc' = "returned"
    /\ dialRet' = [client |-> FALSE, err |-> ErrConnectTimeout]
    /\ dialConn' = IF closeOnError(ErrConnectTimeout) THEN "closed" ELSE dialConn
    /\ UNCHANGED nonDialVars
    /\ UNCHANGED <<dialOpt, ctorPc, dialCh>>

(***************************************************************************)
(* MiniRegistryDiscovery and MultiDiscovery                                *)
(***************************************************************************)
\* Length of the server lists, calls on the discovery, ticks of the clock.
MaxList == 2
MaxOps == 3
MaxTicks == 3

\* MiniRegistryDiscovery.timeout, in ticks.
UpdateTimeout == 2

SelectMode_Random == 0
SelectMode_RoundRobin == 1
\* A mode that is none of the two.
SelectMode_Other == 2

Addrs == {"a", "b"}

ServerLists == UNION {[1..n -> Addrs] : n \in 0..MaxList}

\* What http.Get(d.registry) gives: an error with a nil response, or a
\* response whose X-Minirpc-Servers header holds a list (maybe empty).
RegistryAnswers == [ok : {TRUE}, servers : ServerLists]
                \cup {[ok |-> FALSE, servers |-> << >>]}


\* run: the addresses the round-robin Gets have returned since the list was
\* last set, and d.index when it was set.
NoGot == [op |-> "none", mode |-> SelectMode_Random, fetch |-> "none",
          addr |-> "", all |-> << >>, err |-> NoErr,
          run |-> [start |-> 0, addrs |-> << >>]]

\* The run after a Refresh: a new one when the list was fetched.
runAfter(fetch) ==
    IF fetch = "ok" THEN [start |-> index, addrs |-> << >>] ELSE got.run

\* A list that is refreshed at every call.
stale_Always(t, last) == TRUE

\* Refresh goes on to the request: not time.Now().Sub(d.lastUpdate) <
\* d.timeout.
stale(t, last) == t - last >= UpdateTimeout

\* Refresh when http.Get gives resp: the request it made (none, ok, failed),
\* the server list and lastUpdate after it, and the panic of
\* resp.Header.Get on the nil response of a failed request.
refresh(resp) ==
    IF ~stale(dNow, lastUpdate)
      THEN [fetch |-> "none", list |-> serverList, last |-> lastUpdate,
            pc |-> "ok"]
    ELSE IF resp.ok
      THEN [fetch |-> "ok", list |-> resp.servers, last |-> dNow,
            pc |-> "ok"]
      ELSE [fetch |-> "failed", list |-> serverList, last |-> lastUpdate,
            pc |-> "nil pointer dereference"]

\* getRoundRobin that leaves d.index where it is.
rrNext_Same(list, i) == i

\* d.index after getRoundRobin: (d.index + 1) % len(d.serverList).
rrNext(list, i) == (i + 1) % Len(list)

\* MultiDiscovery.Get(mode) on list with d.index = i; r is the number
\* d.r.Intn gives.  The result: address, error, d.index and a panic.
multiGet(list, i, mode, r) ==
    IF Len(list) = 0
      THEN [addr |-> "", err |-> "no avaliable server", index |-> i, pc |-> "ok"]
    ELSE IF mode = SelectMode_Random
      THEN [addr |-> list[r + 1], err |-> NoErr, index |-> i, pc |-> "ok"]
    ELSE IF mode = SelectMode_RoundRobin
      THEN IF i < Len(list)
             THEN [addr |-> list[i + 1], err |-> NoErr,
                   index |-> rrNext(list, i), pc |-> "ok"]
             ELSE [addr |-> "", err |-> NoErr,
                   index |-> rrNext(list, i), pc |-> "index out of range"]
      ELSE [addr |-> "", err |-> "unknown select mode", index |-> i, pc |-> "ok"]

DiscoveryInit ==
    /\ dNow = UpdateTimeout
    /\ serverList = << >>
    /\ index = 0
    /\ lastUpdate = 0
    /\ dPc = "ok"
    /\ dOps = 0
    /\ got = NoGot

\* Time passes.
DiscoveryTick ==
    /\ dPc = "ok"
    /\ dNow < UpdateTimeout + MaxTicks
    /\ dNow' = dNow + 1
    /\ UNCHANGED nonDiscoveryVars
    /\ UNCHANGED <<serverList, index, lastUpdate, dPc, dOps, got>>

\* MiniRegistryDiscovery.Update(servers)
Update(newList) ==
    /\ dPc = "ok"
    /\ dOps < MaxOps
    /\ dOps' = dOps + 1
    /\ serverList' = newList
    /\ lastUpdate' = dNow
    /\ got' = [NoGot EXCEPT !.op = "Update", !.run = runAfter("ok")]
    /\ UNCHANGED nonDiscoveryVars
    /\ UNCHANGED <<dNow, index, dPc>>

\* MiniRegistryDiscovery.Refresh()
Refresh(resp) ==
    /\ dPc = "ok"
    /\ dOps < MaxOps
    /\ dOps' = dOps + 1
    /\ serverList' = refresh(resp).list
    /\ lastUpdate' = refresh(resp).last
    /\ dPc' = refresh(resp).pc
    /\ got' = [NoGot EXCEPT !.op = "Refresh", !.fetch = refresh(resp).fetch,
                            !.run = runAfter(refresh(resp).fetch)]
    /\ UNCHANGED nonDiscoveryVars
    /\ UNCHANGED <<dNow, index>>

\* MiniRegistryDiscovery.Get(mode): Refresh, then MultiDiscovery.Get(mode).
Get(mode, resp, r) ==
    /\ dPc = "ok"
    /\ dOps < MaxOps
    /\ dOps' = dOps + 1
    /\ r < Len(refresh(resp).list) \/ r = 0
    /\ serverList' = refresh(resp).list
    /\ lastUpdate' = refresh(resp).last
    /\ IF refresh(resp).pc # "ok"
         THEN /\ dPc' = refresh(resp).pc
              /\ index' = index
              /\ got' = [NoGot EXCEPT !.op = "Get", !.mode = mode,
                                      !.fetch = refresh(resp).fetch,
                                      !.run = got.run]
         ELSE LET g == multiGet(refresh(resp).list, index, mode, r) IN
              /\ dPc' = g.pc
              /\ index' = g.index
              /\ got' = [NoGot EXCEPT !.op = "Get", !.mode = mode,
                                      !.fetch = refresh(resp).fetch,
                                      !.addr = g.addr, !.err = g.err,
                                      !.run = IF mode = SelectMode_RoundRobin
                                                 /\ g.pc = "ok"
                                                 /\ g.err = NoErr
                                                THEN [runAfter(refresh(resp).fetch)
                                                        EXCEPT !.addrs =
                                                          Append(@, g.addr)]
                                                ELSE runAfter(refresh(resp).fetch)]
    /\ UNCHANGED nonDiscoveryVars
    /\ UNCHANGED dNow

\* MiniRegistryDiscovery.GetAll(): Refresh, then MultiDiscovery.GetAll().
GetAll(resp) ==
    /\ dPc = "ok"
    /\ dOps < MaxOps
    /\ dOps' = dOps + 1
    /\ serverList' = refresh(resp).list
    /\ lastUpdate' = refresh(resp).last
    /\ dPc' = refresh(resp).pc
    /\ got' = [NoGot EXCEPT !.op = "GetAll", !.fetch = refresh(resp).fetch,
                            !.run = runAfter(refresh(resp).fetch),
                            !.all = IF refresh(resp).pc = "ok"
                                      THEN refresh(resp).list ELSE << >>]
    /\ UNCHANGED nonDiscoveryVars
    /\ UNCHANGED <<dNow, index>>

(***************************************************************************)
(* MiniRegistry                                                            *)
(***************************************************************************)
\* Ticks of the registry's clock and requests it serves.
MaxRegTicks == 3
MaxRegOps == 3

\* The timeout of a registry that evicts, in ticks.
RegistryTimeout == 2

NoRequest == [method |-> "none", addr |-> "", status |-> 0, evicted |-> {}]

\* An item that lives one tick longer.
young_Late(start, t, ttl) == ttl = 0 \/ t - start <= ttl

\* aliveServers keeps an item: r.timeout == 0 ||
\* time.Since(server.start) < r.timeout.
young(start, t, ttl) == ttl = 0 \/ t - start < ttl

\* What aliveServers returns at time t (the order of the list is that of
\* the iteration over the map).
aliveServers(m, t, ttl) == {a \in DOMAIN m : young(m[a], t, ttl)}

\* r.servers after PutServer(addr) at time t.
PutServer(m, addr, t) ==
    [a \in DOMAIN m \cup {addr} |-> IF a = addr THEN t ELSE m[a]]

RegistryInit ==
    /\ rNow = 0
    /\ rTimeout = 0
    /\ servers = << >>
    /\ alive = {}
    /\ rOps = 0
    /\ rOp = NoRequest

\* registry.New(timeout)
New(ttl) ==
    /\ rOp.method = "none"
    /\ rTimeout' = ttl
    /\ rOp' = [NoRequest EXCEPT !.method = "New"]
    /\ UNCHANGED nonRegistryVars
    /\ UNCHANGED <<rNow, servers, alive, rOps>>

\* Time passes.
RegistryTick ==
    /\ rNow < MaxRegTicks
    /\ rNow' = rNow + 1
    /\ UNCHANGED nonRegistryVars
    /\ UNCHANGED <<rTimeout, servers, alive, rOps, rOp>>

\* ServeHTTP: GET answers with aliveServers(), which deletes the items it
\* does not return; POST with an address runs PutServer, without one it
\* answers 500; any other method is answered 405.
ServeHTTP(method, addr) ==
    /\ rOp.method # "none"
    /\ rOps < MaxRegOps
    /\ rOps' = rOps + 1
    /\ method = "POST" \/ addr = ""
    /\ alive' = IF method = "GET" THEN aliveServers(servers, rNow, rTimeout)
                                  ELSE alive
    /\ servers' =
          IF method = "GET"
            THEN [a \in aliveServers(servers, rNow, rTimeout) |-> servers[a]]
          ELSE IF method = "POST" /\ addr # ""
            THEN PutServer(servers, addr, rNow)
            ELSE servers
    /\ rOp' = [method  |-> method,
               addr    |-> addr,
               status  |-> IF method = "POST" /\ addr = "" THEN 500
                           ELSE IF method \in {"GET", "POST"} THEN 200
                           ELSE 405,
               evicted |-> IF method = "GET"
                             THEN DOMAIN servers
                                    \ aliveServers(servers, rNow, rTimeout)
                             ELSE {}]
    /\ UNCHANGED nonRegistryVars
    /\ UNCHANGED <<rNow, rTimeout>>

(***************************************************************************)
(* XClient.dial                                                            *)
(***************************************************************************)
\* Goroutines that call dial, and clients XDial returns.
NumDialers == 2
MaxClients == 3

NoClient == 0

NoDialer == [pc |-> "idle", addr |-> "", ret |-> NoClient, err |-> NoErr]

\* A mutex that Lock never finds taken.
muFree_Always == TRUE

\* c.mu.Lock() can return.
muFree == mu = NoClient

\* clients[addr] is there and client.Avaliable().
cached(addr) == addr \in DOMAIN clients /\ made[clients[addr]].avail

XClientInit ==
    /\ clients = << >>
    /\ mu = NoClient
    /\ made = << >>
    /\ dialers = [d \in 1..NumDialers |-> NoDialer]

\* dial: c.mu.Lock() and the lookup.  A cached client that is Avaliable is
\* returned (and the deferred Unlock runs); one that is not is closed and
\* deleted, and dial goes on to XDial, as it does when there is none.
dialLookup(d, addr) ==
    /\ dialers[d].pc = "idle"
    /\ muFree
    /\ IF cached(addr)
         THEN /\ dialers' = [dialers EXCEPT ![d] =
                    [pc |-> "returned", addr |-> addr, ret |-> clients[addr],
                     err |-> NoErr]]
              /\ UNCHANGED <<clients, mu, made>>
         ELSE /\ dialers' = [dialers EXCEPT ![d] =
                    [pc |-> "xdial", addr |-> addr, ret |-> NoClient,
                     err |-> NoErr]]
              /\ mu' = d
              /\ clients' = [a \in DOMAIN clients \ {addr} |-> clients[a]]
              /\ made' = IF addr \in DOMAIN clients
                           THEN [made EXCEPT ![clients[addr]].closed = TRUE]
                           ELSE made
    /\ UNCHANGED nonCacheVars

\* dial: XDial returns.  An error is returned; a client is stored and
\* c.clients[rpcAddr] is returned; the deferred Unlock runs.
dialXDial(d, ok) ==
    /\ dialers[d].pc = "xdial"
    /\ ok => Len(made) < MaxClients
    /\ mu' = IF mu = d THEN NoClient ELSE mu
    /\ IF ok
         THEN /\ made' = Append(made, [addr |-> dialers[d].addr,
                                       avail |-> TRUE, closed |-> FALSE])
              /\ clients' = [a \in DOMAIN clients \cup {dialers[d].addr} |->
                               IF a = dialers[d].addr THEN Len(made) + 1
                                                      ELSE clients[a]]
              /\ dialers' = [dialers EXCEPT ![d].pc = "returned",
                                            ![d].ret = Len(made) + 1]
         ELSE /\ dialers' = [dialers EXCEPT ![d].pc = "returned",
                                            ![d].err = ErrDial]
              /\ UNCHANGED <<clients, made>>
    /\ UNCHANGED nonCacheVars

\* The goroutine is ready for its next dial.
dialAgain(d) ==
    /\ dialers[d].pc = "returned"
    /\ dialers' = [dialers EXCEPT ![d] = NoDialer]
    /\ UNCHANGED nonCacheVars
    /\ UNCHANGED <<clients, mu, made>>

\* A client stops being Avaliable: its receive loop has run
\* terminateCalls.
ClientFails(id) ==
    /\ id \in 1..Len(made)
    /\ made[id].avail
    /\ made' = [made EXCEPT ![id].avail = FALSE]
    /\ UNCHANGED nonCacheVars
    /\ UNCHANGED <<clients, mu, dialers>>

(***************************************************************************)
(* methodType.newArgv and newReply                                         *)
(***************************************************************************)
\* Requests whose values are made.
MaxNew == 2

\* The kinds of the types behind ArgType and ReplyType.
ElemKinds == {"int", "struct", "map", "slice"}

\* ArgType is any type that passed registerMethods, ReplyType a pointer.
ArgTypes == [kind : ElemKinds, elem : {""}] \cup [kind : {"ptr"}, elem : ElemKinds]
ReplyTypes == [kind : {"ptr"}, elem : ElemKinds]

\* The zero value of a kind: nil for a map and a slice.
zeroValue(kind) == IF kind \in {"map", "slice"} THEN "nil" ELSE "zero"

\* reflect.MakeMap and reflect.MakeSlice of type t: they panic when t is not
\* a map or a slice type.
makeEmpty(t) == IF t.kind \in {"map", "slice"} THEN "empty" ELSE "panic"

\* newArgv: reflect.New(ArgType.Elem()) for a pointer, else
\* reflect.New(ArgType).Elem(); at is the new allocation.
newArgv(t, at) ==
    IF t.kind = "ptr"
      THEN [kind |-> "ptr", elem |-> t.elem, at |-> at,
            val |-> zeroValue(t.elem)]
      ELSE [kind |-> t.kind, elem |-> "", at |-> at, val |-> zeroValue(t.kind)]

\* newReply: reflect.New(ReplyType.Elem()), whose target is set to
\* MakeMap(m.ReplyType) or MakeSlice(m.ReplyType, 0, 0) when the element is
\* a map or a slice.
newReply(t, at) ==
    [kind |-> "ptr", elem |-> t.elem, at |-> at,
     val |-> IF t.elem \in {"map", "slice"} THEN makeEmpty(t)
                                             ELSE zeroValue(t.elem)]

ValuesInit == values = << >>

\* readRequest: req.argv = req.mtype.newArgv(); req.replyv =
\* req.mtype.newReply(), for a method with the types argType and replyType.
\* A panic of reflect ends the program.
NewValues(argType, replyType) ==
    /\ Len(values) < MaxNew
    /\ \A i \in 1..Len(values) : values[i].replyv.val # "panic"
    /\ values' = Append(values,
          [argType   |-> argType,
           replyType |-> replyType,
           argv      |-> newArgv(argType, 2 * Len(values) + 1),
           replyv    |-> newReply(replyType, 2 * Len(values) + 2)])
    /\ UNCHANGED nonValueVars

(***************************************************************************)
(* The bytes of the handshake                                              *)
(***************************************************************************)
\* Request frames the client writes.
MaxFrames == 2

\* The handshake record NewClient writes with json.NewEncoder(conn).
OptionBytes == [kind |-> "option", seq |-> 0, arg |-> 0]

\* The header and the body of the frame of request s with argument a.
FrameBytes(s, a) ==
    <<[kind |-> "header", seq |-> s, arg |-> a],
      [kind |-> "body", seq |-> s, arg |-> a]>>

\* A decoder that reads exactly the bytes of the value it decodes.
buffered_None(avail) == << >>

\* What json.NewDecoder(conn).Decode leaves in the decoder's buffer: the
\* decoder fills its buffer with one conn.Read, which returns what has
\* arrived, and after the value the rest stays in the buffer.
buffered(avail) == Tail(avail)

HandshakeInit ==
    /\ sock = << >>
    /\ hs = [pc |-> "dial", sent |-> 0, wire |-> << >>, lost |-> << >>,
             got |-> << >>]

\* NewClient: json.NewEncoder(conn).Encode(opt)
HsNewClient ==
    /\ hs.pc = "dial"
    /\ hs' = [hs EXCEPT !.pc = "readOption", !.wire = Append(@, OptionBytes)]
    /\ UNCHANGED sock
    /\ UNCHANGED nonHandshakeVars

\* Client.send: cc.Write(&header, call.Args) of the next request, at any
\* time after NewClient has returned.
HsSend(a) ==
    /\ hs.pc # "dial"
    /\ hs.sent < MaxFrames
    /\ hs' = [hs EXCEPT !.sent = @ + 1,
                        !.wire = @ \o FrameBytes(hs.sent + 1, a)]
    /\ UNCHANGED sock
    /\ UNCHANGED nonHandshakeVars

\* The connection delivers the bytes in order, in pieces of any size.
HsDeliver ==
    /\ hs.wire # << >>
    /\ sock' = Append(sock, Head(hs.wire))
    /\ hs' = [hs EXCEPT !.wire = Tail(@)]
    /\ UNCHANGED nonHandshakeVars

\* HandleConn: readOption decodes the handshake with a decoder of its own,
\* which is dropped with what it has buffered; then codecFunc(conn).
HsReadOption ==
    /\ hs.pc = "readOption"
    /\ sock # << >>
    /\ sock' = << >>
    /\ hs' = [hs EXCEPT !.pc = "codec", !.lost = buffered(sock)]
    /\ UNCHANGED nonHandshakeVars

\* readRequest: the codec reads what comes next on the connection, as a
\* header and then as a body.
HsCodecRead ==
    /\ hs.pc = "codec"
    /\ sock # << >>
    /\ sock' = Tail(sock)
    /\ hs' = [hs EXCEPT !.got = Append(@, Head(sock))]
    /\ UNCHANGED nonHandshakeVars

(***************************************************************************)
(* ConsistentHash                                                          *)
(***************************************************************************)
\* The virtual-node multiplier the ring is made with.
RingReplicas == 2

\* Calls of Add.
MaxAdds == 3

\* The real nodes, and the number each one stands for in the hash.
Nodes == {"a", "b"}
NodeNo(key) == IF key = "a" THEN 1 ELSE 3

\* crc32.ChecksumIEEE(strconv.Itoa(i) + key): distinct virtual nodes have
\* distinct hashes, and the nodes' hashes interleave on the ring.
vhash(i, key) == 4 * i + NodeNo(key)

\* The hashes a looked-up key can have: below, between and above the
\* virtual nodes.
LookupHashes == 0..(4 * RingReplicas)

NoRingGet == [done |-> FALSE, hash |-> 0, ret |-> ""]

\* sort.Search(len(keys), keys[i] >= hash), on 1-based positions: the first
\* position whose hash is at least hash, Len(keys) + 1 when there is none.
search(keys, hash) ==
    IF \E i \in 1..Len(keys) : keys[i] >= hash
    THEN CHOOSE i \in 1..Len(keys) :
            /\ keys[i] >= hash
            /\ \A j \in 1..(i - 1) : keys[j] < hash
    ELSE Len(keys) + 1

\* c.virtualMap[hash]: the zero value when the map has no such entry.
mapGet(m, hash) == IF hash \in DOMAIN m THEN m[hash] ELSE ""

\* The loop of Add over the replicas, from replica i on.
RECURSIVE addReplicas(_, _, _)
addReplicas(r, key, i) ==
    IF i >= RingReplicas THEN r
    ELSE addReplicas([r EXCEPT
                        !.keys = Append(@, vhash(i, key)),
                        !.virtualMap = (vhash(i, key) :> key) @@ @],
                     key, i + 1)

\* The loop of Delete over the replicas, from replica i on.
RECURSIVE deleteReplicas(_, _, _)
deleteReplicas(r, key, i) ==
    IF i >= RingReplicas THEN r
    ELSE LET hash == vhash(i, key)
             found == search(r.keys, hash)
             idx == IF found = Len(r.keys) + 1 THEN 1 ELSE found
         IN  IF idx > Len(r.keys)
             THEN [r EXCEPT !.err = "index out of range"]
             ELSE IF r.keys[idx] # hash
             THEN deleteReplicas(r, key, i + 1)
             ELSE deleteReplicas(
                    [r EXCEPT
                       !.keys = SubSeq(@, 1, idx - 1)
                                  \o SubSeq(@, idx + 1, Len(@)),
                       !.virtualMap = [h \in DOMAIN @ \ {hash} |-> @[h]]],
                    key, i + 1)

\* New(replicas)
RingInit ==
    /\ ring = [keys |-> << >>, virtualMap |-> << >>, adds |-> 0, err |-> ""]
    /\ ringGot = NoRingGet

\* Add(key)
RingAdd(key) ==
    /\ ring.err = ""
    /\ ring.adds < MaxAdds
    /\ LET r == addReplicas(ring, key, 0)
       IN  ring' = [r EXCEPT !.keys = SortSeq(@, LAMBDA x, y : x < y),
                             !.adds = @ + 1]
    /\ ringGot' = NoRingGet
    /\ UNCHANGED nonRingVars

\* Get(key), for a key whose hash is hash
RingGet(hash) ==
    /\ ring.err = ""
    /\ LET found == search(ring.keys, hash)
           idx == IF found = Len(ring.keys) + 1 THEN 1 ELSE found
       IN  ringGot' = [done |-> TRUE, hash |-> hash,
                       ret |-> IF Len(ring.keys) = 0 THEN ""
                               ELSE mapGet(ring.virtualMap, ring.keys[idx])]
    /\ UNCHANGED ring
    /\ UNCHANGED nonRingVars

\* Delete(key)
RingDelete(key) ==
    /\ ring.err = ""
    /\ ring' = IF key = "" THEN ring ELSE deleteReplicas(ring, key, 0)
    /\ ringGot' = NoRingGet
    /\ UNCHANGED nonRingVars

(***************************************************************************)
(* Specifications                                                          *)
(***************************************************************************)
Init ==
    /\ ClientInit /\ ServerInit /\ ServiceInit /\ BroadcastInit /\ DialInit
    /\ DiscoveryInit /\ RegistryInit /\ XClientInit
    /\ ValuesInit
    /\ HandshakeInit
    /\ RingInit

\* The client and its peer.
Next ==
    \/ \E c \in Calls : Go(c)
    \/ \E c \in Calls : CtxCancel(c)
    \/ \E c \in Calls : CallCancelled(c)
    \/ \E c \in Calls : CallDone(c)
    \/ \E c \in Calls : SendRegisterShutdown(c)
    \/ \E c \in Calls : SendRegister(c)
    \/ \E c \in Calls : SendWriteOk(c)
    \/ \E c \in Calls : SendWriteLost(c)
    \/ \E c \in Calls : SendWriteError(c)
    \/ \E c \in Calls : SendWriteFail(c)
    \/ RecvReadHeader
    \/ RecvReadHeaderError
    \/ \E ok \in BOOLEAN : RecvDiscard(ok)
    \/ \E ok \in BOOLEAN : RecvError(ok)
    \/ \E ok \in BOOLEAN : RecvReply(ok)
    \/ TerminateCalls
    \/ Close
    \/ \E i \in 1..NumCalls, failed \in BOOLEAN : PeerRespond(i, failed)
    \/ PeerClose

Spec == Init /\ [][Next]_vars

\* A service and direct calls of its methods.
NextService ==
    \/ \E t \in TypeInputs : NewService(t)
    \/ \E k \in 1..MaxSvcCalls, m \in {<<"Sum">>, <<"Timeout">>},
          args \in 1..2 : CallAdd(k, m, args)
    \/ \E k \in 1..MaxSvcCalls, failed \in BOOLEAN : CallInvoke(k, failed)

SpecService == Init /\ [][NextService]_vars

\* One Broadcast and its arms.
NextBroadcast ==
    \/ BroadcastGetAllError
    \/ \E n \in 0..MaxServers, replyNil \in BOOLEAN : BroadcastStart(n, replyNil)
    \/ ParentCancel
    \/ \E a \in 1..MaxServers : ArmClone(a)
    \/ \E a \in 1..MaxServers : ArmClonePanic(a)
    \/ \E a \in 1..MaxServers : ArmDialError(a)
    \/ \E a \in 1..MaxServers : ArmDialOk(a)
    \/ \E a \in 1..MaxServers : ArmCallOk(a)
    \/ \E a \in 1..MaxServers : ArmCallError(a)
    \/ \E a \in 1..MaxServers : ArmCallCtx(a)
    \/ \E a \in 1..MaxServers : ArmAssign(a)
    \/ BroadcastReturn

SpecBroadcast == Init /\ [][NextBroadcast]_vars

\* One dialTimeout and the goroutine of its constructor.
NextDial ==
    \/ \E e \in {ErrOneOption, ErrNetDial} : DialFail(e)
    \/ \E connectTimeout \in ConnectTimeouts, codec \in {"", GobType, JsonType},
          f \in {"NewClient", "NewHTTPClient"} :
            DialStart(connectTimeout, codec, f)
    \/ \E resp \in {"connected", "other", "error"} : CtorHTTPResponse(resp)
    \/ \E encodes \in BOOLEAN : CtorNewClient(encodes)
    \/ DialTick
    \/ DialResult
    \/ DialTimerFires

SpecDial == Init /\ [][NextDial]_vars

\* The same, with the steps the scheduler takes when they stay possible: an
\* arm's allocation, its return from client.Call on a cancelled context,
\* its section under assignLock, and the return of Broadcast.  No fairness
\* is assumed of dial or of the servers' answers.
FairBroadcast ==
    /\ SpecBroadcast
    /\ \A a \in 1..MaxServers :
          /\ WF_vars(ArmClone(a))
          /\ WF_vars(ArmClonePanic(a))
          /\ WF_vars(ArmCallCtx(a))
          /\ WF_vars(ArmAssign(a))
    /\ WF_vars(BroadcastReturn)

\* The server, one session of it, and the peer of that session.
NextServer ==
    \/ \E name \in Receivers : Register(name)
    \/ \E sm \in ServiceMethods, bodyOk \in BOOLEAN : SrvPeerWrite(sm, bodyOk)
    \/ SrvPeerClose
    \/ \E opt \in OptionInputs : HandleConnOk(opt)
    \/ \E opt \in OptionInputs : HandleConnReject(opt)
    \/ ReadRequestOk
    \/ ReadRequestError
    \/ ReadRequestEof
    \/ WaitAndClose
    \/ \E w \in 1..MaxReqs : HandleTimeoutElapses(w)
    \/ \E w \in 1..MaxReqs, failed \in BOOLEAN : WorkerCall(w, failed)
    \/ \E w \in 1..MaxReqs : WorkerLock(w)
    \/ \E w \in 1..MaxReqs : WorkerWriteHeader(w)
    \/ \E w \in 1..MaxReqs : WorkerWriteBody(w)

SpecServer == Init /\ [][NextServer]_vars

\* The registry discovery, its callers and the clock.
NextDiscovery ==
    \/ DiscoveryTick
    \/ \E newList \in ServerLists : Update(newList)
    \/ \E resp \in RegistryAnswers : Refresh(resp)
    \/ \E mode \in {SelectMode_Random, SelectMode_RoundRobin, SelectMode_Other},
          resp \in RegistryAnswers, r \in 0..(MaxList - 1) : Get(mode, resp, r)
    \/ \E resp \in RegistryAnswers : GetAll(resp)

SpecDiscovery == Init /\ [][NextDiscovery]_vars

\* The registry, the servers and clients that call it, and the clock.
NextRegistry ==
    \/ \E ttl \in {0, RegistryTimeout} : New(ttl)
    \/ RegistryTick
    \/ \E method \in {"GET", "POST", "PUT"}, addr \in Addrs \cup {""} :
          ServeHTTP(method, addr)

SpecRegistry == Init /\ [][NextRegistry]_vars

\* The goroutines that call XClient.dial, and the clients' failures.
NextCache ==
    \/ \E d \in 1..NumDialers, addr \in Addrs : dialLookup(d, addr)
    \/ \E d \in 1..NumDialers, ok \in BOOLEAN : dialXDial(d, ok)
    \/ \E d \in 1..NumDialers : dialAgain(d)
    \/ \E id \in 1..MaxClients : ClientFails(id)

SpecCache == Init /\ [][NextCache]_vars

\* The requests for which readRequest makes values.
NextValues ==
    \E argType \in ArgTypes, replyType \in ReplyTypes :
        NewValues(argType, replyType)

SpecValues == Init /\ [][NextValues]_vars

\* A client that dials and sends, and the server's side of the connection.
NextHandshake ==
    \/ HsNewClient
    \/ \E a \in 1..MaxFrames : HsSend(a)
    \/ HsDeliver
    \/ HsReadOption
    \/ HsCodecRead

SpecHandshake == Init /\ [][NextHandshake]_vars

\* Any sequence of Add, Delete and Get on one ring.
NextRing ==
    \/ \E key \in Nodes : RingAdd(key)
    \/ \E hash \in LookupHashes : RingGet(hash)
    \/ \E key \in Nodes \cup {""} : RingDelete(key)

SpecRing == Init /\ [][NextRing]_vars

(***************************************************************************)
(* Properties of the client (checked under Spec)                           *)
(***************************************************************************)
\* C1: whenever the receive loop has stopped on a read-side error (a failed
\* ReadHeader or a failed ReadBody; it stops in no other way), terminateCalls
\* has run: the client is not Avaliable and every call in the pending table
\* has been delivered on Done with a non-nil error.
C1_ReadErrorTerminates ==
    recvPc = "exited" =>
        /\ ~avaliable
        /\ \A c \in Range(pending) : delivered[c] >= 1 /\ callErr[c] # NoErr

\* C2: after Close, once the receive loop has stopped and no send is in
\* progress (nothing can deliver any more), every call that is still in the
\* pending table and whose context is not cancelled has been delivered on
\* Done with an error.
C2_CloseDeliversPending ==
    (/\ closed
     /\ recvPc = "exited"
     /\ \A c \in Calls : sendPc[c] \in {"none", "done"})
    => \A c \in Range(pending) :
          ~ctxDone[c] => delivered[c] >= 1 /\ callErr[c] # NoErr

\* A send that finds the client closed or shutdown ends with the call
\* delivered with ErrClientShutdown and with the sequence counter, the
\* pending table, the call's Seq and the stream as they were.
ShutdownStep ==
    \A c \in Calls :
        (sendPc[c] = "spawned" /\ sendPc'[c] # "spawned"
            /\ (closed \/ shutdown))
        => /\ sendPc'[c] = "done"
           /\ callErr'[c] = ErrClientShutdown
           /\ delivered'[c] = delivered[c] + 1
           /\ seq' = seq /\ pending' = pending /\ reqWire' = reqWire
           /\ callSeq'[c] = NoCall

\* A call that ended without a sequence number is not in the pending table
\* and not on the stream, and its Call, unless it returned on cancellation,
\* returned ErrClientShutdown.
ShutdownState ==
    \A c \in Calls :
        (sendPc[c] = "done" /\ callSeq[c] = NoCall)
        => /\ c \notin Range(pending)
           /\ \A i \in 1..Len(reqWire) : reqWire[i].arg # ArgsOf(c)
           /\ (callerPc[c] = "returned" /\ callRet[c] # ErrTimeout)
                 => callRet[c] = ErrClientShutdown

\* C3: Call on a client that was closed by Close or shut down by
\* terminateCalls returns ErrClientShutdown (unless it returns on
\* cancellation), and on that path the call is not added to the pending
\* table, the sequence counter is not advanced and nothing is written.
C3_ShutdownCallUntouched == []ShutdownState /\ [][ShutdownStep]_vars

\* C3 witness: on a client closed by Close while another call is pending, a
\* Call started afterwards has returned ErrClientShutdown.
C3_Witness ==
    \E c \in Calls :
        /\ closed /\ ~ctxDone[c] /\ callSeq[c] = NoCall
        /\ callerPc[c] = "returned" /\ callRet[c] = ErrClientShutdown
        /\ pending # << >>

\* C4: once Call has returned its timeout error and the send goroutine of
\* the call has finished, the call is not in the pending table.
C4_CancelRemoves ==
    \A c \in Calls :
        (callerPc[c] = "returned" /\ callRet[c] = ErrTimeout
            /\ sendPc[c] = "done")
        => c \notin Range(pending)

\* The response to call c has arrived: the peer has answered c's sequence
\* number and the receive loop has read that response and finished with it.
Consumed(c) ==
    /\ callSeq[c] # NoCall
    /\ callSeq[c] \in answered
    /\ \A i \in 1..Len(respWire) : respWire[i].seq # callSeq[c]
    /\ recvHdr.seq # callSeq[c]

\* C5: every call is delivered on its Done channel at most once, and a call
\* whose response has arrived and whose Call did not return on cancellation
\* has been delivered exactly once.
C5_DeliveredOnce ==
    \A c \in Calls :
        /\ delivered[c] <= 1
        /\ (Consumed(c) /\ callRet[c] # ErrTimeout) => delivered[c] = 1

\* C5 witness: a response has arrived for a call and the call was delivered
\* once, after which the receive loop failed and terminateCalls ran.
C5_Witness ==
    \E c \in Calls :
        Consumed(c) /\ delivered[c] = 1 /\ shutdown /\ recvPc = "exited"

\* C6: the reply of a call is written only with the body of the response to
\* that call's own request, a server error in Call.Err is the Error of the
\* response carrying the call's own Seq, and the receive loop never holds a
\* call for a header of another Seq.
C6_Demultiplex ==
    \A c \in Calls :
        /\ reply[c] \in {NoCall, ReplyOf(ArgsOf(c))}
        /\ callErr[c] \in {NoErr, ErrClientShutdown, ErrRecieve,
                           ErrReadingBody, ErrWrite, ErrorOf(callSeq[c])}
        /\ recvCall = c => recvHdr.seq = callSeq[c]

\* C6 witness: the response to the later call arrived first and its reply
\* is written while the earlier call is still pending with its response
\* behind on the stream.
C6_Witness ==
    \E c, d \in Calls :
        /\ callSeq[c] # NoCall /\ callSeq[d] > callSeq[c]
        /\ reply[d] = ReplyOf(ArgsOf(d))
        /\ callSeq[c] \in DOMAIN pending
        /\ \E i \in 1..Len(respWire) : respWire[i].seq = callSeq[c]

\* What holds of the sequence numbers in every state: they are those from
\* FirstSeq up to the counter, no two calls share one, and the table holds
\* each call under its own number.
SeqState ==
    /\ seq = FirstSeq + Cardinality({c \in Calls : callSeq[c] # NoCall})
    /\ \A c \in Calls : callSeq[c] # NoCall =>
          callSeq[c] >= FirstSeq /\ callSeq[c] < seq
    /\ \A c, d \in Calls :
          (c # d /\ callSeq[c] # NoCall) => callSeq[c] # callSeq[d]
    /\ \A s \in DOMAIN pending : callSeq[pending[s]] = s

\* What holds of every step: the counter never decreases, a call gets its
\* number once, and a number enters the table only as the current value of
\* the counter, which the same step advances.
SeqStep ==
    /\ seq' >= seq
    /\ \A c \in Calls : callSeq'[c] # callSeq[c] =>
          callSeq[c] = NoCall /\ callSeq'[c] = seq /\ seq' > seq
    /\ \A s \in DOMAIN pending' \ DOMAIN pending : s = seq /\ seq' > seq

\* C7: the counter starts at FirstSeq, every registerCall assigns a number
\* greater than all assigned before, no two calls share a number and a
\* number is inserted into the pending table once only.
C7_SeqUnique == []SeqState /\ [][SeqStep]_vars

\* C7 witness: a number has left the table and a greater one is in it.
C7_Witness ==
    \E c, d \in Calls :
        /\ callSeq[c] # NoCall /\ callSeq[c] \notin DOMAIN pending
        /\ callSeq[d] > callSeq[c] /\ callSeq[d] \in DOMAIN pending

\* C8: when the receive loop reads the header of a response to a call
\* whose Call has already returned its timeout error, removeCall finds no
\* call (the "no such call" branch handles the response).
C8_LateResponseDiscarded ==
    [][(/\ recvPc = "readHeader"
        /\ recvPc' = "readBody"
        /\ \E c \in Calls : /\ callSeq[c] = recvHdr'.seq
                            /\ callerPc[c] = "returned"
                            /\ callRet[c] = ErrTimeout)
       => recvCall' = NoCall]_vars

(***************************************************************************)
(* Properties of the server (checked under SpecServer)                     *)
(***************************************************************************)
\* C9: a request is looked up, a worker started or a response written only
\* after a handshake that decodes, carries the magic number and names the
\* gob codec; after any other handshake the connection is closed and no
\* request was looked up, dispatched or answered.
C9_HandshakeBeforeDispatch ==
    LET valid == /\ option.decodes
                 /\ option.magic = MagicNumber
                 /\ option.codec = GobType
        touched == \/ workers # << >>
                   \/ srvOut # << >>
                   \/ srvErrReq # NoReq
    IN  /\ (touched \/ srvPc \in {"readRequest", "wait", "panic"}) => valid
        /\ (srvPc # "readOption" /\ ~valid) =>
              srvPc = "closed" /\ ~srvConnOpen /\ ~touched

\* C9 witness: after a valid handshake a response has been written.
C9_Witness ==
    /\ option.decodes /\ option.magic = MagicNumber /\ option.codec = GobType
    /\ \E i \in 1..Len(srvOut) : srvOut[i].kind = "body"

\* C10: a request whose ServiceMethod findService rejects does not stop the
\* server: after the pump has read it, the server has not panicked.
C10_DispatchErrorNonFatal ==
    (srvErrReq # NoReq /\ findService(srvErrReq.sm) # NoErr)
        => srvPc # "panic"

\* C11: when the handshake carries HandleTimeout > 0 and the method of a
\* request was still running when the HandleTimeout had elapsed, the frame
\* the worker sent for that Seq is a server-originated timeout error, not
\* the method's result, and the session has been closed.
C11_HandleTimeoutFrame ==
    \A w \in 1..Len(workers) :
        (workers[w].late /\ workers[w].pc = "done")
        => /\ workers[w].error \notin {NoHeaderError, ErrMethod}
           /\ ~srvConnOpen

\* The Register calls that named the receiver of the i-th one before it.
EarlierSame(i) == {j \in 1..(i - 1) : regLog[j].name = regLog[i].name}

\* Each name registered maps to the service of the first Register of that
\* name, and a Register returned the duplicate-service error exactly when
\* an earlier Register had the same name.
RegisterState ==
    /\ DOMAIN serviceMap = {regLog[i].name : i \in 1..Len(regLog)}
    /\ \A i \in 1..Len(regLog) :
          /\ regLog[i].err = NoErr <=> EarlierSame(i) = {}
          /\ regLog[i].err # NoErr => regLog[i].err = ErrDuplicate
          /\ EarlierSame(i) = {} => serviceMap[regLog[i].name] = i

\* A Register of a name that is already registered leaves the service map
\* as it was.
RegisterStep ==
    (Len(regLog') = Len(regLog) + 1
        /\ regLog'[Len(regLog')].name \in DOMAIN serviceMap)
    => /\ serviceMap' = serviceMap
       /\ regLog'[Len(regLog')].err = ErrDuplicate

\* C12: registering a receiver whose type name is already registered
\* returns the duplicate-service error and leaves the service map
\* unchanged; the name still maps to the service of the first Register, in
\* whatever order concurrent Register calls take effect (exactly one of
\* them succeeds).
C12_DuplicateRegister == []RegisterState /\ [][RegisterStep]_vars

\* C12 witness: the same receiver was registered twice and the second
\* Register returned the duplicate-service error.
C12_Witness ==
    /\ Len(regLog) = 2
    /\ regLog[1].name = regLog[2].name
    /\ regLog[1].err = NoErr
    /\ regLog[2].err = ErrDuplicate

\* The positions of the '.' in a name.
Dots(s) == {i \in 1..Len(s) : s[i] = Dot}

\* The first '.' of a name that has one.
FirstDot(s) == CHOOSE i \in Dots(s) : \A j \in Dots(s) : i <= j

\* The outcome of looking up service sname and method mname.
LookupError(sname, mname) ==
    IF sname \notin DOMAIN serviceMap THEN ErrNoService
    ELSE IF mname \notin ExposedMethods(sname) THEN ErrNoMethod
    ELSE NoErr

\* The error of a name when it is split on its first '.'.
FirstDotError(s) ==
    IF Dots(s) = {} THEN ErrIllFormed
    ELSE LookupError(SubSeq(s, 1, FirstDot(s) - 1),
                     SubSeq(s, FirstDot(s) + 1, Len(s)))

\* The error of a name when only a name with exactly one '.' is well formed.
OneDotError(s) ==
    IF Cardinality(Dots(s)) # 1 THEN ErrIllFormed
    ELSE LookupError(SubSeq(s, 1, FirstDot(s) - 1),
                     SubSeq(s, FirstDot(s) + 1, Len(s)))

\* The request pump takes a request off the stream.
ReadsRequest == srvPc = "readRequest" /\ srvIn # << >> /\ srvIn' = Tail(srvIn)

\* The request read is dispatched when e is nil (or fails on its body), and
\* fails with e otherwise.
LookupOutcome(e) ==
    IF e = NoErr
      THEN \/ Len(workers') = Len(workers) + 1
           \/ srvErrReq'.err = ErrReadBody
      ELSE Len(workers') = Len(workers) /\ srvErrReq'.err = e

ErrorsDistinct ==
    Cardinality({ErrIllFormed, ErrNoService, ErrNoMethod}) = 3

\* C15 (as stated): findService splits the name on the first '.': for every
\* name with at least one '.', the service looked up is the text before the
\* first '.' and the method all the text after it; a name without '.' gives
\* the ill-formed error, an unknown service the can't-find-service error,
\* an unknown method the can't-find-method error, the three being distinct.
C15_SplitFirstDot ==
    []ErrorsDistinct
    /\ [][ReadsRequest => LookupOutcome(FirstDotError(Head(srvIn).sm))]_vars

\* C15 (amended): a name with exactly one '.' looks up the service named by
\* the text before it and the method named by the text after it; a name
\* without '.' or with more than one '.' gives the ill-formed error; an
\* unknown service gives the can't-find-service error and an unknown method
\* the can't-find-method error, the three errors being distinct.
C15_SplitOneDot ==
    []ErrorsDistinct
    /\ [][ReadsRequest => LookupOutcome(OneDotError(Head(srvIn).sm))]_vars

\* C15 witness: with Foo registered, the request Foo.Sum.x failed with the
\* ill-formed error.
C15_Witness ==
    /\ <<"Foo">> \in DOMAIN serviceMap
    /\ srvErrReq.sm = <<"Foo", Dot, "Sum", Dot, "x">>
    /\ srvErrReq.err = ErrIllFormed
    /\ regLog # << >> /\ regLog[1].name = <<"Foo">>
    /\ srvPc = "panic"

(***************************************************************************)
(* Properties of newService and service.call (checked under SpecService)   *)
(***************************************************************************)
\* The method names the claim exposes: exported, two parameters after the
\* receiver, the second a pointer, one result of type error.
ClaimedExposed(methods) ==
    {<<m.name>> : m \in {x \in methods :
        /\ IsExported(x.name)
        /\ Len(x.in) - 1 = 2
        /\ x.in[3].kind = "ptr"
        /\ x.out = <<ErrorType>>}}

\* The same, with an argument type that is exported or has no package path.
AmendedExposed(methods) ==
    {<<m.name>> : m \in {x \in methods :
        /\ IsExported(x.name)
        /\ Len(x.in) - 1 = 2
        /\ x.in[3].kind = "ptr"
        /\ IsExported(x.in[2].name) \/ x.in[2].pkgPath = ""
        /\ x.out = <<ErrorType>>}}

Counted(m) ==
    {k \in 1..MaxSvcCalls : svcCalls[k].pc # "idle" /\ svcCalls[k].m = m}

\* C14: service.call invokes the method with the bound receiver, the given
\* argument and the given reply, returns the method's error result (nil for
\* nil) and increments the method's counter by exactly one per call: the
\* counter equals the number of calls made, concurrent ones included.
C14_CallCounts ==
    /\ \A m \in DOMAIN numCalls : numCalls[m] = Cardinality(Counted(m))
    /\ \A k \in 1..MaxSvcCalls :
          svcCalls[k].pc = "done"
          => /\ svcCalls[k].rcvr = svc.name
             /\ svcCalls[k].in = svcCalls[k].args
             /\ svcCalls[k].reply = ReplyOf(svcCalls[k].args)
             /\ svcCalls[k].err = svcCalls[k].ret[1]

\* C14 witness: every call was made on one method, concurrently (all had
\* incremented before any returned is among the interleavings), one of
\* them returned the method's error and NumCalls() is their number.
C14_Witness ==
    /\ \A k \in 1..MaxSvcCalls : svcCalls[k].pc = "done"
    /\ \E m \in DOMAIN numCalls : numCalls[m] = MaxSvcCalls
    /\ \E k \in 1..MaxSvcCalls : svcCalls[k].err = ErrMethod
    /\ \E k \in 1..MaxSvcCalls : svcCalls[k].err = NoErr

(***************************************************************************)
(* Properties of Broadcast (checked under SpecBroadcast, FairBroadcast)    *)
(***************************************************************************)
\* The arms whose c.call returned nil, and those whose c.call returned an
\* error.
Succeeded == {a \in 1..bcServers : arms[a].pc \in {"lock", "done"}
                                     /\ arms[a].e = NoErr}
Failed == {a \in 1..bcServers : arms[a].pc \in {"lock", "done"}
                                  /\ arms[a].e # NoErr}

\* C16: Broadcast returns nil if and only if at least one arm succeeded and
\* no arm failed, for every server list, the empty one included, and every
\* interleaving of the arms.
C16_SuccessIff ==
    bcPc = "returned"
    => (bcRet = NoErr <=> (Succeeded # {} /\ Failed = {}))

\* Arm a passes its section under assignLock.
Observes(a) == arms[a].pc = "lock" /\ arms'[a].pc = "done"

\* The first error observed under assignLock becomes err and cancels the
\* child context; err, once set, is never replaced.
FirstErrorStep ==
    /\ \A a \in 1..MaxServers :
          (Observes(a) /\ bcErr = NoErr /\ arms[a].e # NoErr)
          => (bcErr' = arms[a].e /\ bcCtx' = "cancelled")
    /\ bcErr # NoErr => bcErr' = bcErr
    /\ (bcPc = "running" /\ bcPc' = "returned") => bcRet' = bcErr

\* Broadcast has returned only when every arm has returned, with the error
\* captured; whenever an error is captured the child context is cancelled.
FirstErrorState ==
    /\ (bcPc = "returned" /\ bcRet # ErrGetAll)
          => (bcRet = bcErr /\ \A a \in 1..bcServers : arms[a].pc = "done")
    /\ bcErr # NoErr => bcCtx = "cancelled"

\* Every arm has its client: it is in client.Call or past it.
AllDialed == \A a \in 1..bcServers : arms[a].pc \in {"call", "lock", "done"}

\* C17: the first arm error observed under the guard mutex is the error
\* Broadcast returns (later errors, cancellation errors included, never
\* replace it); observing it cancels the child context, so that every arm
\* still waiting in its call returns; Broadcast returns only after all arms
\* have returned.
C17_FirstErrorCancels ==
    /\ []FirstErrorState
    /\ [][FirstErrorStep]_vars
    /\ (bcPc = "running" /\ bcCtx = "cancelled" /\ AllDialed)
          ~> (bcPc = "returned")

\* C17 witness: two arms failed with different errors, the second after the
\* cancellation, and Broadcast returned the first.
C17_Witness ==
    /\ bcPc = "returned"
    /\ \E a, b \in 1..bcServers :
          /\ arms[a].e = ErrorOf(a)
          /\ arms[b].e = ErrTimeout
          /\ bcRet = ErrorOf(a)

\* A step that changes the caller's reply is the section under assignLock
\* of an arm that succeeded, when no reply was assigned before, and gives it
\* the value of that arm's clone; replyDone stays set.
ReplyStep ==
    /\ mem'[CallerReply] # mem[CallerReply]
          => /\ ~replyDone /\ replyDone'
             /\ \E a \in 1..MaxServers :
                   /\ Observes(a)
                   /\ arms[a].e = NoErr
                   /\ mem'[CallerReply] = mem[a]
    /\ replyDone => replyDone'
    /\ \A a \in 1..MaxServers :
          mem'[a] # mem[a] => arms[a].pc \in {"start", "call"}

\* The clone of an arm that succeeded holds that arm's reply, and the
\* caller's reply is unassigned or the reply of an arm that succeeded.
ReplyState ==
    /\ \A a \in Succeeded : mem[a] = ServerReply(a)
    /\ \/ mem[CallerReply] = 0
       \/ \E a \in Succeeded : arms[a].pc = "done"
                                 /\ mem[CallerReply] = ServerReply(a)
    /\ (Succeeded # {} /\ \A a \in Succeeded : arms[a].pc = "done"
          /\ ~bcReplyNil) => mem[CallerReply] # 0

\* C18: each arm writes only into its own freshly allocated clone of the
\* reply, and the caller's reply is assigned at most once per Broadcast,
\* under the guard mutex, with the clone of the first arm that succeeded;
\* the replies of later successful arms are discarded.
C18_ReplyAssignedOnce == []ReplyState /\ [][ReplyStep]_vars

\* C18 witness: two arms succeeded, Broadcast returned and the caller's
\* reply is the reply of one of them.
C18_Witness ==
    /\ bcPc = "returned"
    /\ Cardinality(Succeeded) >= 2
    /\ \E a \in Succeeded : mem[CallerReply] = ServerReply(a)

(***************************************************************************)
(* Properties of dialTimeout (checked under SpecDial)                      *)
(***************************************************************************)
\* dialTimeout returns from its wait in this step.
DialReturns == dialPc = "wait" /\ dialPc' = "returned"

\* The timer's firing makes dialTimeout return the connect-timeout error;
\* that error is returned only with a positive ConnectTimeout that has
\* elapsed and no result on ch; with ConnectTimeout = 0 the value returned
\* is the result the constructor produced.
TimeoutStep ==
    /\ (~dialFired /\ dialFired')
          => (DialReturns /\ dialRet'.err = ErrConnectTimeout)
    /\ (DialReturns /\ dialRet'.err = ErrConnectTimeout)
          => /\ dialOpt.connectTimeout > 0
             /\ dialElapsed' >= dialOpt.connectTimeout
             /\ dialCh = << >>
    /\ (DialReturns /\ dialOpt.connectTimeout = 0)
          => (dialCh # << >> /\ dialRet' = Head(dialCh))

\* dialTimeout does not wait past a positive ConnectTimeout without a
\* result, and with ConnectTimeout = 0 no timer fires.
TimeoutState ==
    /\ (dialPc = "wait" /\ dialOpt.connectTimeout > 0 /\ dialCh = << >>)
          => dialElapsed < dialOpt.connectTimeout
    /\ (dialPc # "idle" /\ dialOpt.connectTimeout = 0 /\ dialConn # "none")
          => (~dialFired /\ dialRet.err # ErrConnectTimeout)

\* C19: with ConnectTimeout > 0 dialTimeout returns a connect-timeout error
\* when the constructor has not produced a result before the timer fires;
\* with ConnectTimeout = 0 it never times out and returns exactly the client
\* and error the constructor produced, however long the constructor takes.
C19_ConnectTimeout == []TimeoutState /\ [][TimeoutStep]_vars

\* C19 witness: the timer fired before the constructor had produced a
\* result and dialTimeout returned the connect-timeout error.
C19_Witness ==
    /\ dialPc = "returned"
    /\ dialOpt.connectTimeout > 0
    /\ dialFired
    /\ ctorPc # "sent"
    /\ dialRet.err = ErrConnectTimeout

\* C20: when dialTimeout returns an error after the stream was opened (the
\* constructor failed, the CONNECT status was not the expected one, or the
\* timer won) the stream has been closed; when it returns a client and no
\* error the stream is open.
C20_StreamClosedOnError ==
    (dialPc = "returned" /\ dialConn # "none")
    => /\ dialRet.err # NoErr => dialConn = "closed"
       /\ (dialRet.err = NoErr /\ dialRet.client) => dialConn = "open"

\* C20 witness: the CONNECT status was not the expected one, dialTimeout
\* returned that error and the stream is closed.
C20_Witness ==
    /\ dialPc = "returned"
    /\ dialOpt.f = "NewHTTPClient"
    /\ dialRet.err = ErrConnectStatus
    /\ dialConn = "closed"

(***************************************************************************)
(* Further properties of the client (checked under Spec)                   *)
(***************************************************************************)
\* C23: a call that was registered is either in the pending table or has
\* left it (delivered on Done, removed on cancellation, removed on
\* shutdown): no call is in the pending table and already delivered on Done.
C23_PendingOrDelivered ==
    \A c \in Calls : ~(c \in Range(pending) /\ delivered[c] >= 1)

\* C24: the requests of one client are on the connection in strictly
\* increasing order of sequence number (so no sequence number is there
\* twice), and each header is followed by the arguments of the call that was
\* registered under the header's sequence number.
C24_WireOrder ==
    /\ \A i, j \in 1..Len(reqWire) :
          i < j => reqWire[i].seq < reqWire[j].seq
    /\ \A i \in 1..Len(reqWire) :
          \E c \in Calls :
              callSeq[c] = reqWire[i].seq /\ reqWire[i].arg = ArgsOf(c)

\* C24 witness: the requests of two callers are on the connection, that of
\* the caller that started second before that of the other.
C24_Witness ==
    /\ Len(reqWire) = 2
    /\ reqWire[1].arg = ArgsOf(2)
    /\ reqWire[2].arg = ArgsOf(1)

\* A send whose cc.Write returned nil (it ends without removeCall) has put
\* its request on the stream.
WriteNilStep ==
    \A c \in Calls :
        (sendPc[c] = "write" /\ sendPc'[c] = "done")
        => reqWire' = Append(reqWire, [seq |-> callSeq[c], arg |-> ArgsOf(c)])

\* C27: GobCodec.Write returns nil only if the header and the body were
\* handed to the underlying stream; when the flush fails it returns an error
\* and closes the stream.
C27_WriteNilOnStream == [][WriteNilStep]_vars

(***************************************************************************)
(* Further properties of the server (checked under SpecServer)             *)
(***************************************************************************)
\* The workers that are inside cc.Write.
Writing == {w \in 1..Len(workers) : workers[w].pc \in {"header", "body"}}

\* C25: a response is written by a sendResponse that holds the session's
\* sending mutex, so at most one cc.Write is in progress, and on the stream
\* every header is followed at once by the body of the same response.  (The
\* pump's error path never reaches its sendResponse: see C10.)
C25_WritesSerialized ==
    /\ Writing = {srvSending} \ {NoWorker}
    /\ \A i \in 1..Len(srvOut) :
          IF i % 2 = 1
            THEN /\ srvOut[i].kind = "header"
                 /\ i = Len(srvOut) => Writing # {}
            ELSE /\ srvOut[i].kind = "body"
                 /\ srvOut[i].seq = srvOut[i - 1].seq

\* C25 witness: a worker is between the header and the body of its response
\* while another worker, whose method has returned, waits for the mutex.
C25_Witness ==
    \E w, v \in 1..Len(workers) :
        /\ workers[w].pc = "body"
        /\ srvSending = w
        /\ workers[v].pc = "send"

\* The responses on the stream that carry sequence number s.
Responses(s) ==
    {i \in 1..Len(srvOut) : srvOut[i].kind = "header" /\ srvOut[i].seq = s}

\* The pump waits for workers only after the end of the stream, reads the
\* next frame whatever the workers do, no request has two responses, and
\* when the codec was closed after the end of the stream every worker has
\* finished and written the response of its request.
PumpState ==
    /\ srvPc = "wait" => srvEof /\ srvIn = << >>
    /\ (srvPc = "readRequest" /\ srvIn # << >>)
          => ENABLED (ReadRequestOk \/ ReadRequestError)
    /\ \A w \in 1..Len(workers) : Cardinality(Responses(workers[w].seq)) <= 1
    /\ (srvPc = "closed" /\ readOptionOk(option) /\ codecFuncOk(option))
          => \A w \in 1..Len(workers) :
                /\ workers[w].pc = "done"
                /\ Cardinality(Responses(workers[w].seq)) = 1

\* Nothing is written once the codec is closed.
PumpStep == ~srvConnOpen => srvOut' = srvOut

\* C26: the pump never waits for a worker before it reads the next frame;
\* on the end of the stream it closes the codec only after every worker it
\* dispatched has finished, so every request it read has exactly one
\* response write and none after the codec was closed.
C26_PumpWaitsAtEnd == []PumpState /\ [][PumpStep]_vars

\* C26 witness: the codec is closed after two requests were read, the
\* second of them answered before the first.
C26_Witness ==
    /\ srvPc = "closed"
    /\ Len(workers) = 2
    /\ Len(srvOut) = 4
    /\ srvOut[1].seq = workers[2].seq

(***************************************************************************)
(* Properties of the discovery (checked under SpecDiscovery)               *)
(***************************************************************************)
\* A call whose request to the registry failed ends without a panic, with
\* the server list as it was, and GetAll answers with that list.
RefreshFailStep ==
    (dOps' # dOps /\ got'.fetch = "failed")
    => /\ dPc' = "ok"
       /\ serverList' = serverList
       /\ got'.op = "GetAll" => got'.all = serverList

\* C21: when the request of a refresh fails, the discovery does not crash,
\* the cached server list stays as it was, and Get and GetAll answer from
\* it.
C21_RefreshFailureKeepsList == [][RefreshFailStep]_vars

\* A Get in round-robin mode on a list that is not empty (after a refresh
\* that did not fail) returns the element at the persisted index taken
\* modulo the length of the list.
RoundRobinStep ==
    (/\ dOps' # dOps
     /\ got'.op = "Get"
     /\ got'.mode = SelectMode_RoundRobin
     /\ got'.fetch # "failed"
     /\ serverList' # << >>)
    => /\ dPc' = "ok"
       /\ got'.err = NoErr
       /\ got'.addr = serverList'[(index % Len(serverList')) + 1]

\* C28: Get(RoundRobin) on a list that is not empty returns an element of
\* the current list, the persisted index being used modulo the current
\* length, also in the first Get after an Update to a shorter list.
C28_RoundRobinInList == [][RoundRobinStep]_vars

\* A request is made only on a stale list; a call on a fresh list changes
\* neither the list nor lastUpdate; a successful request and Update set
\* lastUpdate to the time of the call.
TTLStep ==
    dOps' # dOps =>
      /\ got'.fetch # "none" => dNow - lastUpdate >= UpdateTimeout
      /\ (got'.op \in {"Refresh", "Get", "GetAll"}
            /\ dNow - lastUpdate < UpdateTimeout)
         => /\ got'.fetch = "none"
            /\ serverList' = serverList
            /\ lastUpdate' = lastUpdate
      /\ got'.fetch = "ok" => lastUpdate' = dNow
      /\ got'.op = "Update" => lastUpdate' = dNow

\* C30: the registry discovery makes a request only when now - lastUpdate
\* >= TTL; under the TTL Refresh, Get and GetAll leave the list and
\* lastUpdate as they are; a successful refresh and Update set lastUpdate
\* to now.
C30_RefreshOnlyWhenStale == [][TTLStep]_vars

\* C30 witness: after a successful request time has passed, less than the
\* TTL, and a Get has answered from the list without a request.
C30_Witness ==
    /\ got.op = "Get"
    /\ got.fetch = "none"
    /\ got.addr # ""
    /\ lastUpdate > UpdateTimeout
    /\ dNow > lastUpdate
    /\ dNow - lastUpdate < UpdateTimeout

(***************************************************************************)
(* Properties of the registry (checked under SpecRegistry)                 *)
(***************************************************************************)
\* The age of the item of address a at the time of the request.
Age(a) == rNow - servers[a]

\* A GET returns the addresses whose item is younger than the timeout (all
\* of them when the timeout is 0), keeps their items as they are and deletes
\* the others, so that with a timeout no item as old as the timeout is left
\* and no item younger than it is deleted; a POST with an address sets the
\* item of that address to the time of the request and touches no other.
RegistryStep ==
    rOps' # rOps =>
      /\ rOp'.method = "GET" =>
            /\ alive' = {a \in DOMAIN servers :
                            rTimeout = 0 \/ Age(a) < rTimeout}
            /\ DOMAIN servers' = alive'
            /\ \A a \in alive' : servers'[a] = servers[a]
            /\ rTimeout > 0 =>
                  \A a \in DOMAIN servers' : rNow - servers'[a] < rTimeout
            /\ \A a \in DOMAIN servers \ DOMAIN servers' :
                  rTimeout > 0 /\ Age(a) >= rTimeout
      /\ (rOp'.method = "POST" /\ rOp'.addr # "") =>
            /\ DOMAIN servers' = DOMAIN servers \cup {rOp'.addr}
            /\ servers'[rOp'.addr] = rNow
            /\ \A a \in DOMAIN servers \ {rOp'.addr} :
                  servers'[a] = servers[a]

\* C22: aliveServers returns exactly the addresses whose last heartbeat is
\* younger than the TTL (all of them when the TTL is 0) and leaves no item
\* in the map that is as old as the TTL; PutServer inserts the address or
\* resets its time; an address whose heartbeats are less than the TTL apart
\* is never evicted.
C22_AliveServers == [][RegistryStep]_vars

\* C22 witness: a GET has evicted one address and returned another, whose
\* last heartbeat is one tick younger than the timeout.
C22_Witness ==
    /\ rOp.method = "GET"
    /\ rOp.evicted # {}
    /\ \E a \in alive : rNow - servers[a] = rTimeout - 1

(***************************************************************************)
(* Properties of XClient.dial (checked under SpecCache)                    *)
(***************************************************************************)
\* The clients that are in the cache.
InCache == {clients[a] : a \in DOMAIN clients}

\* Every client is cached under the address it was dialed for, a client that
\* is not in the cache has been closed (so no address has two clients in
\* use), and a dial that returned without an error returned a client of the
\* address it was asked for.
CacheState ==
    /\ \A a \in DOMAIN clients : made[clients[a]].addr = a
    /\ \A id \in 1..Len(made) : id \notin InCache => made[id].closed
    /\ \A d \in 1..NumDialers :
          (dialers[d].pc = "returned" /\ dialers[d].err = NoErr)
          => /\ dialers[d].ret \in 1..Len(made)
             /\ made[dialers[d].ret].addr = dialers[d].addr

\* A dial that finds an available client returns it, with the cache as it
\* was and no client made; one that finds an unavailable client closes it
\* and deletes it; when XDial fails the address has no entry and no client
\* is returned; when it succeeds the new client is in the cache and is the
\* one returned.
CacheStep ==
    \A d \in 1..NumDialers :
        LET addr == dialers'[d].addr IN
        /\ (dialers[d].pc = "idle" /\ dialers'[d].pc # "idle") =>
              /\ cached(addr) =>
                    /\ dialers'[d].pc = "returned"
                    /\ dialers'[d].ret = clients[addr]
                    /\ dialers'[d].err = NoErr
                    /\ clients' = clients /\ made' = made
              /\ ~cached(addr) =>
                    /\ dialers'[d].pc = "xdial"
                    /\ addr \notin DOMAIN clients'
                    /\ addr \in DOMAIN clients => made'[clients[addr]].closed
        /\ (dialers[d].pc = "xdial" /\ dialers'[d].pc = "returned") =>
              IF dialers'[d].err # NoErr
                THEN /\ addr \notin DOMAIN clients'
                     /\ dialers'[d].ret = NoClient
                ELSE /\ dialers'[d].ret = Len(made) + 1
                     /\ Len(made') = Len(made) + 1
                     /\ clients'[addr] = dialers'[d].ret

DownStep ==
    (closed \/ shutdown) =>
        /\ closed' = closed
        /\ shutdown => shutdown'
        /\ ~avaliable'
        /\ \A c \in Calls :
              (sendPc[c] = "spawned" /\ sendPc'[c] # "spawned")
              => /\ callErr'[c] = ErrClientShutdown
                 /\ pending' = pending
                 /\ seq' = seq

\* C32: once Close has succeeded or terminateCalls has run, Avaliable is
\* false for ever, every later registerCall fails with ErrClientShutdown,
\* and a later Close returns ErrClientShutdown without closing the codec:
\* Close closes the codec at most once.
C32_DownForEver == [][DownStep]_vars

\* C32 witness: terminateCalls has run on a client that was never closed,
\* and a call started afterwards was refused by registerCall.
C32_Witness ==
    /\ shutdown /\ ~closed
    /\ \E c \in Calls :
          /\ sendPc[c] = "done"
          /\ callSeq[c] = NoCall
          /\ callErr[c] = ErrClientShutdown

\* No step delivers a call on its Done channel while a send holds
\* Client.sending.
DeliveryStep ==
    \A c \in Calls : delivered'[c] # delivered[c] => ~sendingHeld

\* C31: sending is taken before lock when both are held, and no call is
\* delivered on its Done channel while sending or lock is held, so that the
\* two mutexes cannot deadlock.
C31_NoDeliveryUnderMutex == [][DeliveryStep]_vars

(***************************************************************************)
(* Properties of newArgv and newReply (checked under SpecValues)           *)
(***************************************************************************)
\* C33: for every registered method newReply returns, without failing, a
\* new pointer of the reply type whose target is an empty container when it
\* is a map or a slice, and newArgv returns a new value of the argument
\* type, for the value and for the pointer kinds.
C33_FreshValues ==
    \A i \in 1..Len(values) :
        LET v == values[i] IN
        /\ v.replyv.val # "panic"
        /\ v.replyv.kind = "ptr" /\ v.replyv.elem = v.replyType.elem
        /\ v.replyType.elem \in {"map", "slice"} => v.replyv.val = "empty"
        /\ v.argv.kind = v.argType.kind /\ v.argv.elem = v.argType.elem
        /\ \A j \in 1..Len(values) :
              /\ v.argv.at # values[j].replyv.at
              /\ j # i => /\ v.argv.at # values[j].argv.at
                          /\ v.replyv.at # values[j].replyv.at

(***************************************************************************)
(* Properties of the handshake (checked under SpecHandshake)               *)
(***************************************************************************)
\* C34: the handshake read consumes the bytes of the handshake record and
\* no more: no byte of a frame the client wrote before the server read the
\* handshake is taken by the handshake decoder, and the codec reads the
\* header and the body of every frame in the order they were written.
C34_HandshakeExact ==
    /\ hs.lost = << >>
    /\ \A i \in 1..Len(hs.got) :
          /\ hs.got[i].seq = (i + 1) \div 2
          /\ hs.got[i].kind = IF i % 2 = 1 THEN "header" ELSE "body"

(***************************************************************************)
(* Properties of the ring (checked under SpecRing)                         *)
(***************************************************************************)
\* The real nodes that have a virtual node on the ring.
InRing ==
    {key \in Nodes : \E i \in 0..(RingReplicas - 1), p \in 1..Len(ring.keys) :
                        ring.keys[p] = vhash(i, key)}

\* The real node whose virtual node has this hash.
Owner(hash) ==
    CHOOSE key \in Nodes \cup {""} :
        \/ \E i \in 0..(RingReplicas - 1) : vhash(i, key) = hash
        \/ /\ key = ""
           /\ \A n \in Nodes, i \in 0..(RingReplicas - 1) : vhash(i, n) # hash

\* C36: after any sequence of Add and Delete no operation has failed, the
\* hashes are sorted ascending, every hash has an entry in the mapping, and
\* a Get on a non-empty ring returns a node that is in the ring: the owner
\* of the first virtual node whose hash is at least the key's hash, the
\* first virtual node of all when there is none.
C36_RingInvariant ==
    /\ ring.err = ""
    /\ \A p \in 1..(Len(ring.keys) - 1) : ring.keys[p] <= ring.keys[p + 1]
    /\ \A p \in 1..Len(ring.keys) : ring.keys[p] \in DOMAIN ring.virtualMap
    /\ (ringGot.done /\ ring.keys # << >>) =>
          /\ ringGot.ret \in InRing
          /\ LET found == search(ring.keys, ringGot.hash)
                 idx == IF found = Len(ring.keys) + 1 THEN 1 ELSE found
             IN  ringGot.ret = Owner(ring.keys[idx])

====
